---- MODULE Spec2Model ----
(***************************************************************************)
(* Verification model of the exopy_hqc_legacy / ecpy_hqc_legacy drivers    *)
(* and tasks.  The repository is a set of independent device adapters, so  *)
(* the module holds one state machine per adapter, each with its own       *)
(* specification over its own group of variables:                          *)
(*   SpecAlazar - the DMA buffer ring of Alazar935x.get_traces/get_demod   *)
(*   SpecSetter - setters that read the value back from the instrument     *)
(*   SpecField  - ApplyMagFieldTask.perform on a CS4 / C4G magnet supply   *)
(*   SpecDll    - threads opening and calling the motor-controller library *)
(*                singletons (USMC5_USB_Dll, USMC_CTypes_Dll) and the      *)
(*                L1ControlUnit singleton                                  *)
(*   SpecHall   - HU_PT1_164005 Hall probes sharing the                    *)
(*                MagnetPhysik_DotNet_controller singleton                 *)
(*   SpecMove   - move_motor_abs / move_motor_rel of U8SMC5_8MRU_1TP_Motor  *)
(*                and USMC_Motor, with the motor as environment            *)
(*   SpecSettings - open_connection / close_connection of                  *)
(*                U8SMC5_8MRU_1TP_Motor instruments sharing one library    *)
(*   SpecDemod  - the database entries of DemodAlazarTask / DemodSPTask     *)
(*                under assignments to the channel and trace flags         *)
(*   SpecConvert - update_task / fix_access_exs on a configobj section      *)
(*   SpecAveraging - ZVA24Channel.run_averaging against the instrument's    *)
(*                answers                                                  *)
(*   SpecHelper - the InstrHelper mock: reads of and assignments to its     *)
(*                attributes                                               *)
(* While one machine runs, the variables of the others stay parked.        *)
(***************************************************************************)
EXTENDS Integers, Sequences, FiniteSets, TLC

VARIABLES
    \* ---- Alazar935x acquisition loop
    azFn,         \* "get_traces" or "get_demod"
    azRPC,        \* recordsPerCapture
    azRPB,        \* recordsPerBuffer
    azBufferCount,\* len(buffers)
    azBPA,        \* buffersPerAcquisition
    azPc,         \* position in the function
    azI,          \* index of the initial posting loop
    azCompleted,  \* buffersCompleted
    azBuffer,     \* the local `buffer` (an index into buffers), 0 = unset
    azPosted,     \* board side: buffers posted and not yet waited on, oldest first
    azPostLog,    \* history: every buffer posted, in order
    azConsumed,   \* history: every buffer handed to the wait call, in order
    azWaitOk,     \* history: every wait so far was on the oldest posted buffer
    azRows,       \* history: per row of dataA/dataB, the completions copied to it
    \* ---- read-back setters (SMB100A frequency / power, HF2LI oscillator)
    stKind,       \* which setter runs
    stUnit,       \* self.frequency_unit
    stValue,      \* the value passed to the setter
    stInstr,      \* instrument side: the setting it holds after the write
    stAnswer,     \* the answer to the read-back query, NoAnswer for ''
    stPc,         \* position in the setter
    \* ---- ApplyMagFieldTask on a Cryomagnetics supply
    fdDriver,     \* class of self.driver: "CS4" or "C4G"
    fdValue,      \* target_value of the perform
    fdRate,       \* self.rate
    fdAutoStop,   \* self.auto_stop_heater
    fdStop,       \* self.root.should_stop.is_set()
    fdPc,         \* position in perform / set_supervision
    fdHeater,     \* instrument side: switch heater, "On" or "Off"
    fdUlim,       \* instrument side: the field the output sweeps to
    fdSup,        \* the running set_supervision call: arguments, locals, outcome
    fdHist,       \* history of the running perform
    fdPerforms,   \* number of performs started
    \* ---- library singletons and the controllers' calls
    dlKind,       \* the singleton class in use
    dlInstance,   \* cls._instance: 0 for None, else the object
    dlLock,       \* per library object: the thread holding self.lock, 0 = free
    dlClosed,     \* library objects whose close_dll has run
    dlEverClosed, \* history: some close_dll has run
    dlInDll,      \* threads executing inside a function of the native library
    dlPc,         \* per thread: position
    dlSelf,       \* per thread: `self` inside __new__, 0 = none
    dlLib,        \* per thread: controller.library, 0 = not opened
    dlOp,         \* per thread: the call being made under secure()
    dlWaited,     \* per thread: seconds spent blocked in lock.acquire()
    dlCalls,      \* per thread: operations done so far
    \* ---- MagnetPhysik Hall probes
    hlLock,       \* controller.lock: the current Lock object, 0 = no controller
    hlLocks,      \* per Lock object: the instrument that acquired it, 0 = free
    hlPc,         \* per instrument: position
    hlOp,         \* per instrument: the method being run
    hlWant,       \* per instrument: the Lock object it acquires / acquired
    hlOps,        \* per instrument: operations done so far
    \* ---- motor moves
    mvDriver,     \* "U8SMC5" or "U8SMC1"
    mvFn,         \* the method running: "abs", "rel" or "none"
    mvPc,         \* position in the method
    mvNew,        \* destination computed by the method, in steps
    mvT,          \* local t of the running wait loop, in milliseconds
    mvStart,      \* start position read after the first wait loop
    mvSteps,      \* desired_motion_steps
    mvLog,        \* history of the call: "idle" observations and "move" commands
    mvWaited,     \* history: the first wait loop slept at least once
    mvCalls,      \* number of calls started
    mvPos,        \* motor: position in steps
    mvDest,       \* motor: destination of its last command
    mvMoving,     \* motor: moving flag reported by the controller
    \* ---- standard settings of the 8MRU-1TP motors
    sgDevCount,   \* library._dev_count
    sgDone,       \* library._settings_done, one flag per enumerated device
    sgPc,         \* position in open_connection / state of the instrument
    sgSerial,     \* serial id of the instrument being opened
    sgIdx,        \* index of the flag the library finds for that serial
    sgStep,       \* index of the next settings call of this open
    sgExec,       \* history, per flag and settings call: times the call ran
    sgOkAtSet,    \* history, per flag: calls returned Ok in the open that set it
    sgCompleted,  \* history, per flag: opens that ran all calls without error
    sgSkipped,    \* history: the last open found the flag set
    sgOpens,      \* number of opens started
    \* ---- DemodAlazarTask / DemodSPTask
    dmTask,       \* "DemodAlazarTask" or "DemodSPTask"
    dmEnabled,    \* ch1_enabled, ch2_enabled
    dmTrace,      \* ch1_trace, ch2_trace
    dmEntries,    \* keys of database_entries
    dmAssigns,    \* number of assignments made
    \* ---- conversion of a task section
    cvBefore,     \* the section given to update_task
    cvSection,    \* the section, updated in place
    cvPc,         \* "start", "done" or "raised"
    \* ---- ZVA24Channel.run_averaging
    zvPc,         \* position in run_averaging
    zvArg,        \* the aver_count argument
    zvCount,      \* instrument: average count of the channel
    zvI,          \* completed rounds of the for loop
    zvDoublings,  \* times the timeout was doubled in this call
    zvAnswers,    \* history: the answers to '*OPC?' in this call
    \* ---- InstrHelper
    ihStored,     \* _attrs['queued']: the list as stored
    ihSingle,     \* _attrs['single']: an answer that is not a list
    ihGiven,      \* history: number of answers given at construction
    ihQueued,     \* history: answers given, then values assigned, in order
    ihReads,      \* history: outcomes of the reads of 'queued'
    ihLast        \* outcome of the last access

azVars == <<azFn, azRPC, azRPB, azBufferCount, azBPA, azPc, azI, azCompleted,
            azBuffer, azPosted, azPostLog, azConsumed, azWaitOk, azRows>>

stVars == <<stKind, stUnit, stValue, stInstr, stAnswer, stPc>>

fdVars == <<fdDriver, fdValue, fdRate, fdAutoStop, fdStop, fdPc, fdHeater,
            fdUlim, fdSup, fdHist, fdPerforms>>

dlVars == <<dlKind, dlInstance, dlLock, dlClosed, dlEverClosed, dlInDll, dlPc,
            dlSelf, dlLib, dlOp, dlWaited, dlCalls>>

hlVars == <<hlLock, hlLocks, hlPc, hlOp, hlWant, hlOps>>

mvVars == <<mvDriver, mvFn, mvPc, mvNew, mvT, mvStart, mvSteps, mvLog, mvWaited,
            mvCalls, mvPos, mvDest, mvMoving>>

sgVars == <<sgDevCount, sgDone, sgPc, sgSerial, sgIdx, sgStep, sgExec,
            sgOkAtSet, sgCompleted, sgSkipped, sgOpens>>

dmVars == <<dmTask, dmEnabled, dmTrace, dmEntries, dmAssigns>>

cvVars == <<cvBefore, cvSection, cvPc>>

zvVars == <<zvPc, zvArg, zvCount, zvI, zvDoublings, zvAnswers>>

ihVars == <<ihStored, ihSingle, ihGiven, ihQueued, ihReads, ihLast>>

vars == <<azVars, stVars, fdVars, dlVars, hlVars, mvVars, sgVars, dmVars, cvVars, zvVars, ihVars>>

\* what each machine leaves alone
notAz == <<stVars, fdVars, dlVars, hlVars, mvVars, sgVars, dmVars, cvVars, zvVars, ihVars>>

notSt == <<azVars, fdVars, dlVars, hlVars, mvVars, sgVars, dmVars, cvVars, zvVars, ihVars>>

notFd == <<azVars, stVars, dlVars, hlVars, mvVars, sgVars, dmVars, cvVars, zvVars, ihVars>>

notDl == <<azVars, stVars, fdVars, hlVars, mvVars, sgVars, dmVars, cvVars, zvVars, ihVars>>

notHl == <<azVars, stVars, fdVars, dlVars, mvVars, sgVars, dmVars, cvVars, zvVars, ihVars>>

notMv == <<azVars, stVars, fdVars, dlVars, hlVars, sgVars, dmVars, cvVars, zvVars, ihVars>>

notSg == <<azVars, stVars, fdVars, dlVars, hlVars, mvVars, dmVars, cvVars, zvVars, ihVars>>

notDm == <<azVars, stVars, fdVars, dlVars, hlVars, mvVars, sgVars, cvVars, zvVars, ihVars>>

notCv == <<azVars, stVars, fdVars, dlVars, hlVars, mvVars, sgVars, dmVars, zvVars, ihVars>>

notZv == <<azVars, stVars, fdVars, dlVars, hlVars, mvVars, sgVars, dmVars, cvVars, ihVars>>

notIh == <<azVars, stVars, fdVars, dlVars, hlVars, mvVars, sgVars, dmVars, cvVars, zvVars>>

----------------------------------------------------------------------------
(* Helpers *)

Abs(x) == IF x < 0 THEN -x ELSE x

IsPrefix(s, t) == Len(s) <= Len(t) /\ \A i \in 1..Len(s) : s[i] = t[i]

RECURSIVE RemoveFirst(_, _)
RemoveFirst(s, e) ==
    IF s = <<>> THEN <<>>
    ELSE IF Head(s) = e THEN Tail(s)
    ELSE <<Head(s)>> \o RemoveFirst(Tail(s), e)

----------------------------------------------------------------------------
(* Alazar935x.get_traces / get_demod: the ring of DMA buffers.             *)
(* Buffers are named by their position 1..bufferCount in `buffers`         *)
(* (Python's index plus one).                                              *)

MaxRecords == 6

TracesBufferCount == 4

AzFns == {"get_traces", "get_demod"}

\* buffers[buffersCompleted % len(buffers)]
AzNextBufferSkip(completed, n) == ((completed + 1) % n) + 1
AzNextBuffer(completed, n) == (completed % n) + 1

\* int(math.ceil(recordsPerCapture / recordsPerBuffer)) and
\* round(recordsPerCapture / recordsPerBuffer): both arguments are Python 2
\* ints, so `/` is the floor division and ceil/round leave it unchanged.
AzBuffersPerAcquisition(rpc, rpb) == rpc \div rpb

\* bufferCount = 4 in get_traces, round(rPC / rPB) in get_demod
AzBufferCountOf(fn, rpc, rpb) ==
    IF fn = "get_traces" THEN TracesBufferCount ELSE rpc \div rpb

\* the rows of the slice [k*recordsPerBuffer:(k+1)*recordsPerBuffer]
AzRowsFirst(k, rpb) == 0..(rpb - 1)
AzRows(k, rpb) == (k * rpb)..((k + 1) * rpb - 1)

\* dataA[slice] = data[:recordsPerBuffer], dataB[slice] = data[recordsPerBuffer:]
\* in get_traces; get_demod keeps no rows
AzCopyRows(rows, fn, k, rpb) ==
    IF fn = "get_traces"
    THEN [r \in DOMAIN rows |->
            IF r \in AzRows(k, rpb) THEN Append(rows[r], k) ELSE rows[r]]
    ELSE rows

AzInit ==
    /\ azFn \in AzFns
    /\ azRPC \in 1..MaxRecords
    /\ azRPB \in 1..MaxRecords
    /\ azBufferCount = 0
    /\ azBPA = 0
    /\ azPc = "entry"
    /\ azI = 0
    /\ azCompleted = 0
    /\ azBuffer = 0
    /\ azPosted = <<>>
    /\ azPostLog = <<>>
    /\ azConsumed = <<>>
    /\ azWaitOk = TRUE
    /\ azRows = [r \in 0..(azRPC - 1) |-> <<>>]

AzOff ==
    /\ azFn = "get_traces"
    /\ azRPC = 1
    /\ azRPB = 1
    /\ azBufferCount = 0
    /\ azBPA = 0
    /\ azPc = "off"
    /\ azI = 0
    /\ azCompleted = 0
    /\ azBuffer = 0
    /\ azPosted = <<>>
    /\ azPostLog = <<>>
    /\ azConsumed = <<>>
    /\ azWaitOk = TRUE
    /\ azRows = [r \in 0..0 |-> <<>>]

\* get_traces refuses a capture that is not a whole number of buffers
AzRaiseNotMultiple ==
    /\ UNCHANGED notAz
    /\ azPc = "entry"
    /\ azFn = "get_traces"
    /\ azRPC % azRPB # 0
    /\ azPc' = "raised"
    /\ UNCHANGED <<azFn, azRPC, azRPB, azBufferCount, azBPA, azI, azCompleted,
                   azBuffer, azPosted, azPostLog, azConsumed, azWaitOk, azRows>>

\* buffer allocation, setRecordSize, beforeAsyncRead
AzSetup ==
    /\ UNCHANGED notAz
    /\ azPc = "entry"
    /\ azFn = "get_traces" => azRPC % azRPB = 0
    /\ azBPA' = AzBuffersPerAcquisition(azRPC, azRPB)
    /\ azBufferCount' = AzBufferCountOf(azFn, azRPC, azRPB)
    /\ azI' = 0
    /\ azPc' = "post"
    /\ UNCHANGED <<azFn, azRPC, azRPB, azCompleted, azBuffer, azPosted,
                   azPostLog, azConsumed, azWaitOk, azRows>>

\* one iteration of the initial "post DMA buffers to board" loop
AzPostInitial ==
    /\ UNCHANGED notAz
    /\ azPc = "post"
    /\ azI < azBufferCount
    /\ azPosted' = Append(azPosted, azI + 1)
    /\ azPostLog' = Append(azPostLog, azI + 1)
    /\ azI' = azI + 1
    /\ UNCHANGED <<azFn, azRPC, azRPB, azBufferCount, azBPA, azPc, azCompleted,
                   azBuffer, azConsumed, azWaitOk, azRows>>

\* startCapture, buffersCompleted = 0
AzStartCapture ==
    /\ UNCHANGED notAz
    /\ azPc = "post"
    /\ azI >= azBufferCount
    /\ azCompleted' = 0
    /\ azPc' = "loop"
    /\ UNCHANGED <<azFn, azRPC, azRPB, azBufferCount, azBPA, azI, azBuffer,
                   azPosted, azPostLog, azConsumed, azWaitOk, azRows>>

\* loop body up to buffersCompleted += 1: pick the buffer, wait for it, copy
AzWait ==
    /\ UNCHANGED notAz
    /\ azPc = "loop"
    /\ azCompleted < azBPA
    /\ LET b == AzNextBuffer(azCompleted, azBufferCount) IN
        /\ azBuffer' = b
        /\ azWaitOk' = (azWaitOk /\ azPosted # <<>> /\ Head(azPosted) = b)
        /\ azConsumed' = Append(azConsumed, b)
        /\ azPosted' = RemoveFirst(azPosted, b)
    /\ azRows' = AzCopyRows(azRows, azFn, azCompleted, azRPB)
    /\ azCompleted' = azCompleted + 1
    /\ azPc' = "repost"
    /\ UNCHANGED <<azFn, azRPC, azRPB, azBufferCount, azBPA, azI, azPostLog>>

\* "add the buffer to the end of the list of available buffers"
AzRepost ==
    /\ UNCHANGED notAz
    /\ azPc = "repost"
    /\ azPosted' = Append(azPosted, azBuffer)
    /\ azPostLog' = Append(azPostLog, azBuffer)
    /\ azPc' = "loop"
    /\ UNCHANGED <<azFn, azRPC, azRPB, azBufferCount, azBPA, azI, azCompleted,
                   azBuffer, azConsumed, azWaitOk, azRows>>

\* abortAsyncRead once the while condition fails
AzAbort ==
    /\ UNCHANGED notAz
    /\ azPc = "loop"
    /\ azCompleted >= azBPA
    /\ azPc' = "done"
    /\ UNCHANGED <<azFn, azRPC, azRPB, azBufferCount, azBPA, azI, azCompleted,
                   azBuffer, azPosted, azPostLog, azConsumed, azWaitOk, azRows>>

AzNext ==
    \/ AzRaiseNotMultiple
    \/ AzSetup
    \/ AzPostInitial
    \/ AzStartCapture
    \/ AzWait
    \/ AzRepost
    \/ AzAbort

----------------------------------------------------------------------------
(* Setters that write a value and read it back.                            *)
(* Frequencies of the SMB100A are integers: stValue counts frequency_unit, *)
(* the instrument holds and answers Hz.  Powers count 1e-12 dBm and HF2LI  *)
(* oscillator frequencies count 1e-6 Hz, so that each tolerance is one     *)
(* unit of the integer grid.                                               *)

MaxValue == 1

NoAnswer == -1000

PowerTol == 1

OscTol == 1

StKinds == {"frequency", "power", "osc_frequency"}

StUnits == {"GHz", "MHz", "KHz", "Hz"}

\* what the instrument may end up holding, relative to the value requested
StDeviations == {0, 1, 2}

\* result /= 1e9, 1e6, 1e3; any other unit leaves the answer in Hz
StScale(unit) ==
    CASE unit = "GHz" -> 1000000000
      [] unit = "MHz" -> 1000000
      [] unit = "KHz" -> 1000
      [] OTHER -> 1

\* abs(result - value) > 1e-12 with result = answer / scale, for an integer
\* answer in Hz: |answer - value*scale| > scale * 1e-12, and an integer
\* exceeds a real bound exactly when it exceeds its floor.
StFreqOutOfTol(answer, value, unit) ==
    Abs(answer - value * StScale(unit))
        > (StScale(unit) \div 1000000) \div 1000000

\* abs(float(result) - value) > 1e-12
StPowerOutOfTol(answer, value) == Abs(answer - value) > PowerTol

\* abs(value - frequency) > 1e-6
StOscOutOfTol(answer, value) == Abs(answer - value) > OscTol

StOutOfTol(kind, answer, value, unit) ==
    CASE kind = "frequency" -> StFreqOutOfTol(answer, value, unit)
      [] kind = "power" -> StPowerOutOfTol(answer, value)
      [] OTHER -> StOscOutOfTol(answer, value)

\* the value in the unit the instrument holds it in
StRequested(kind, value, unit) ==
    IF kind = "frequency" THEN value * StScale(unit) ELSE value

StInit ==
    /\ stKind \in StKinds
    /\ stUnit \in (IF stKind = "frequency" THEN StUnits ELSE {"Hz"})
    /\ stValue \in 0..MaxValue
    /\ stInstr = 0
    /\ stAnswer = NoAnswer
    /\ stPc = "start"

StOff ==
    /\ stKind = "power"
    /\ stUnit = "Hz"
    /\ stValue = 0
    /\ stInstr = 0
    /\ stAnswer = NoAnswer
    /\ stPc = "off"

\* self.write('FREQ {}{}') / self.write('POWER {}') / daq_serv.setDouble:
\* the instrument takes the value, or ends up close to it or away from it
StWrite ==
    /\ UNCHANGED notSt
    /\ stPc = "start"
    /\ \E d \in StDeviations :
          stInstr' = StRequested(stKind, stValue, stUnit) + d
    /\ stPc' = "written"
    /\ UNCHANGED <<stKind, stUnit, stValue, stAnswer>>

\* self.query('FREQ?') / self.query('POWER?') / daq_serv.getDouble: the
\* instrument answers the setting it holds
StQueryAnswered ==
    /\ UNCHANGED notSt
    /\ stPc = "written"
    /\ stAnswer' = stInstr
    /\ stPc' = "queried"
    /\ UNCHANGED <<stKind, stUnit, stValue, stInstr>>

\* a VISA query may come back as the empty string
StQueryEmpty ==
    /\ UNCHANGED notSt
    /\ stPc = "written"
    /\ stKind \in {"frequency", "power"}
    /\ stAnswer' = NoAnswer
    /\ stPc' = "queried"
    /\ UNCHANGED <<stKind, stUnit, stValue, stInstr>>

\* RohdeSchwarzSMB100A.frequency setter, after the query: `if result:` has
\* no else branch
StCheckFrequency ==
    /\ UNCHANGED notSt
    /\ stPc = "queried"
    /\ stKind = "frequency"
    /\ stPc' = IF stAnswer # NoAnswer
                  /\ StFreqOutOfTol(stAnswer, stValue, stUnit)
               THEN "raised" ELSE "returned"
    /\ UNCHANGED <<stKind, stUnit, stValue, stInstr, stAnswer>>

\* RohdeSchwarzSMB100A.power setter, after the query
StCheckPower ==
    /\ UNCHANGED notSt
    /\ stPc = "queried"
    /\ stKind = "power"
    /\ stPc' = IF stAnswer # NoAnswer
               THEN (IF StPowerOutOfTol(stAnswer, stValue)
                     THEN "raised" ELSE "returned")
               ELSE "raised"
    /\ UNCHANGED <<stKind, stUnit, stValue, stInstr, stAnswer>>

\* HF2LIOscChannel.set_osc_frequency, after getDouble
StCheckOsc ==
    /\ UNCHANGED notSt
    /\ stPc = "queried"
    /\ stKind = "osc_frequency"
    /\ stPc' = IF StOscOutOfTol(stAnswer, stValue) THEN "raised" ELSE "returned"
    /\ UNCHANGED <<stKind, stUnit, stValue, stInstr, stAnswer>>

StNext ==
    \/ StWrite
    \/ StQueryAnswered
    \/ StQueryEmpty
    \/ StCheckFrequency
    \/ StCheckPower
    \/ StCheckOsc

----------------------------------------------------------------------------
(* ApplyMagFieldTask.perform and set_supervision, with the driver methods  *)
(* of CS4 they call.  Fields count OUT_FLUC (2e-4 T), sweep rates count    *)
(* OUT_FLUC per minute, times count seconds.  What the supply answers to a *)
(* field query (IOUT?, IMAG?) is the environment's choice.                 *)

MaxField == 2

MaxPerforms == 2

OutFluc == 1

MaxIter == 10

WaitStep == 10

FdDrivers == {"CS4", "C4G"}

FdFields == 0..MaxField

\* values of self.rate and of the supply's fast sweep rate (RATE? 5)
FdRates == {6}

FdFastRate == 12

FdNoSup ==
    [for |-> "none", target |-> 0, span |-> 0, rate |-> FdFastRate, time |-> 0,
     niter |-> 0, flag |-> "none", haltRead |-> -1, haltSet |-> -1,
     checked |-> <<>>, ret |-> "none"]

FdNoHist ==
    [shCalls |-> 0, shAuto |-> FALSE, shOpen |-> 0, shAfterHalt |-> FALSE,
     open |-> 0, halted |-> FALSE, sweeps |-> 0]

\* set_supervision(target, sweep_span, rate) is entered: time = 0
FdEnter(for, target, span, rate) ==
    [FdNoSup EXCEPT !.for = for, !.target = target, !.span = span,
                    !.rate = rate]

\* `time < wait` with wait = 60 * sweep_span / rate, without the division
FdTimeBelowWait(time, span, rate) == time * rate < 60 * span

\* the out_field setter: C4G's returns after the writes, CS4's goes on to
\* sleep(wait) with no `wait` in scope and raises NameError
FdSetterRaises(driver) == driver = "CS4"

\* self.driver.out_field = self.driver.out_field
FdHaltValueZero(read) == 0
FdHaltValue(read) == read

\* self.auto_stop_heater = False
FdAutoStopKept(cur) == cur
FdAutoStopOnHalt(cur) == FALSE

\* self.driver.check_success(target, time)
FdCheckArgsNoTime(target, time) == <<target, 0>>
FdCheckArgs(target, time) == <<target, time>>

FdInit ==
    /\ fdDriver \in FdDrivers
    /\ fdValue \in FdFields
    /\ fdRate \in FdRates
    /\ fdAutoStop \in BOOLEAN
    /\ fdStop = FALSE
    /\ fdPc = "start"
    /\ fdHeater \in {"On", "Off"}
    /\ fdUlim \in FdFields
    /\ fdSup = FdNoSup
    /\ fdHist = FdNoHist
    /\ fdPerforms = 1

FdOff ==
    /\ fdDriver = "C4G"
    /\ fdValue = 0
    /\ fdRate = 6
    /\ fdAutoStop = TRUE
    /\ fdStop = FALSE
    /\ fdPc = "off"
    /\ fdHeater = "Off"
    /\ fdUlim = 0
    /\ fdSup = FdNoSup
    /\ fdHist = FdNoHist
    /\ fdPerforms = 0

FdRunning == fdPc \notin {"off", "done", "raised"}

\* the engine sets root.should_stop while the task runs
FdStopRequest ==
    /\ UNCHANGED notFd
    /\ FdRunning
    /\ ~fdStop
    /\ fdStop' = TRUE
    /\ UNCHANGED <<fdDriver, fdValue, fdRate, fdAutoStop, fdPc, fdHeater,
                   fdUlim, fdSup, fdHist, fdPerforms>>

\* perform: make ready, then evaluate_state reads IMAG? and PSHTR?
FdEvaluate ==
    /\ UNCHANGED notFd
    /\ fdPc = "start"
    /\ \E persistent \in FdFields :
         LET sw_needed == Abs(persistent - fdValue) >= OutFluc
             heater_off == fdHeater = "Off"
         IN fdPc' = IF sw_needed
                    THEN (IF heater_off THEN "prepare" ELSE "goto")
                    ELSE "auto_stop"
    /\ UNCHANGED <<fdDriver, fdValue, fdRate, fdAutoStop, fdStop, fdHeater,
                   fdUlim, fdSup, fdHist, fdPerforms>>

\* driver.prepare_heater_on(): sweep the output to the persistent field
FdPrepareHeaterOn ==
    /\ UNCHANGED notFd
    /\ fdPc = "prepare"
    /\ \E out \in FdFields, persistent \in FdFields :
         /\ fdUlim' = persistent
         /\ IF FdSetterRaises(fdDriver)
            THEN /\ fdPc' = "raised"
                 /\ UNCHANGED <<fdSup, fdHist>>
            ELSE /\ fdPc' = "sup_loop"
                 /\ fdSup' = FdEnter("prepare", persistent,
                                     Abs(out - persistent), FdFastRate)
                 /\ fdHist' = [fdHist EXCEPT !.open = @ + 1, !.sweeps = @ + 1]
    /\ UNCHANGED <<fdDriver, fdValue, fdRate, fdAutoStop, fdStop, fdHeater,
                   fdPerforms>>

\* the while loop of set_supervision: one sleep(wait_step)
FdSupSleep ==
    /\ UNCHANGED notFd
    /\ fdPc = "sup_loop"
    /\ FdTimeBelowWait(fdSup.time, fdSup.span, fdSup.rate)
    /\ ~fdStop
    /\ fdSup' = [fdSup EXCEPT !.time = @ + WaitStep]
    /\ UNCHANGED <<fdDriver, fdValue, fdRate, fdAutoStop, fdStop, fdPc,
                   fdHeater, fdUlim, fdHist, fdPerforms>>

\* the while condition fails
FdSupLoopExit ==
    /\ UNCHANGED notFd
    /\ fdPc = "sup_loop"
    /\ ~(FdTimeBelowWait(fdSup.time, fdSup.span, fdSup.rate) /\ ~fdStop)
    /\ fdPc' = "sup_branch"
    /\ UNCHANGED <<fdDriver, fdValue, fdRate, fdAutoStop, fdStop, fdHeater,
                   fdUlim, fdSup, fdHist, fdPerforms>>

\* `if self.root.should_stop.is_set():` taken: halt the sweep where it is
FdSupHalt ==
    /\ UNCHANGED notFd
    /\ fdPc = "sup_branch"
    /\ fdStop
    /\ \E read \in FdFields :
         /\ fdUlim' = FdHaltValue(read)
         /\ IF FdSetterRaises(fdDriver)
            THEN /\ fdPc' = "raised"
                 /\ fdSup' = [fdSup EXCEPT !.flag = "set", !.haltRead = read,
                                           !.haltSet = FdHaltValue(read)]
                 /\ UNCHANGED <<fdAutoStop, fdHist>>
            ELSE /\ fdPc' = "sup_ret"
                 /\ fdSup' = [fdSup EXCEPT !.flag = "set", !.haltRead = read,
                                           !.haltSet = FdHaltValue(read),
                                           !.ret = "False"]
                 /\ fdAutoStop' = FdAutoStopOnHalt(fdAutoStop)
                 /\ fdHist' = [fdHist EXCEPT !.halted = TRUE,
                                             !.open = IF @ > 0 THEN @ - 1 ELSE 0]
    /\ UNCHANGED <<fdDriver, fdValue, fdRate, fdStop, fdHeater, fdPerforms>>

\* the flag is clear: call driver.check_success(target, time)
FdSupCheckCall ==
    /\ UNCHANGED notFd
    /\ fdPc = "sup_branch"
    /\ ~fdStop
    /\ fdSup' = [fdSup EXCEPT !.flag = "clear", !.niter = 0,
                              !.checked = FdCheckArgs(fdSup.target, fdSup.time)]
    /\ fdPc' = "sup_check"
    /\ UNCHANGED <<fdDriver, fdValue, fdRate, fdAutoStop, fdStop, fdHeater,
                   fdUlim, fdHist, fdPerforms>>

\* check_success: the output is at the target, return; set_supervision
\* returns True
FdCheckReached ==
    /\ UNCHANGED notFd
    /\ fdPc = "sup_check"
    /\ \E out \in FdFields : Abs(out - fdSup.checked[1]) < OutFluc
    /\ fdSup' = [fdSup EXCEPT !.ret = "True"]
    /\ fdHist' = [fdHist EXCEPT !.open = IF @ > 0 THEN @ - 1 ELSE 0]
    /\ fdPc' = "sup_ret"
    /\ UNCHANGED <<fdDriver, fdValue, fdRate, fdAutoStop, fdStop, fdHeater,
                   fdUlim, fdPerforms>>

\* check_success: the output is not at the target: sleep(5), niter += 1,
\* InstrIOError once niter > MAXITER
FdCheckRetry ==
    /\ UNCHANGED notFd
    /\ fdPc = "sup_check"
    /\ \E out \in FdFields : Abs(out - fdSup.checked[1]) >= OutFluc
    /\ fdSup' = [fdSup EXCEPT !.niter = @ + 1]
    /\ fdPc' = IF fdSup.niter + 1 > MaxIter THEN "raised" ELSE "sup_check"
    /\ UNCHANGED <<fdDriver, fdValue, fdRate, fdAutoStop, fdStop, fdHeater,
                   fdUlim, fdHist, fdPerforms>>

\* back in perform after set_supervision of prepare_heater_on: heater_on()
\* if it returned True
FdAfterPrepare ==
    /\ UNCHANGED notFd
    /\ fdPc = "sup_ret"
    /\ fdSup.for = "prepare"
    /\ fdHeater' = IF fdSup.ret = "True" THEN "On" ELSE fdHeater
    /\ fdPc' = "goto"
    /\ UNCHANGED <<fdDriver, fdValue, fdRate, fdAutoStop, fdStop, fdUlim,
                   fdSup, fdHist, fdPerforms>>

\* driver.go_to_field(target_value, self.rate)
FdGoToField ==
    /\ UNCHANGED notFd
    /\ fdPc = "goto"
    /\ \E out \in FdFields :
         /\ fdUlim' = fdValue
         /\ IF FdSetterRaises(fdDriver)
            THEN /\ fdPc' = "raised"
                 /\ UNCHANGED <<fdSup, fdHist>>
            ELSE /\ fdPc' = "sup_loop"
                 /\ fdSup' = FdEnter("goto", fdValue, Abs(out - fdValue), fdRate)
                 /\ fdHist' = [fdHist EXCEPT !.open = @ + 1, !.sweeps = @ + 1]
    /\ UNCHANGED <<fdDriver, fdValue, fdRate, fdAutoStop, fdStop, fdHeater,
                   fdPerforms>>

\* back in perform after set_supervision of go_to_field
FdAfterGoTo ==
    /\ UNCHANGED notFd
    /\ fdPc = "sup_ret"
    /\ fdSup.for = "goto"
    /\ fdPc' = "auto_stop"
    /\ UNCHANGED <<fdDriver, fdValue, fdRate, fdAutoStop, fdStop, fdHeater,
                   fdUlim, fdSup, fdHist, fdPerforms>>

\* `if self.auto_stop_heater:` taken: driver.stop_heater(post_switch_wait)
\* turns the heater off, sleeps, and sweeps the output to 0
FdStopHeater ==
    /\ UNCHANGED notFd
    /\ fdPc = "auto_stop"
    /\ fdAutoStop
    /\ fdHeater' = "Off"
    /\ fdUlim' = 0
    /\ \E out \in FdFields :
         IF FdSetterRaises(fdDriver)
         THEN /\ fdPc' = "raised"
              /\ fdSup' = fdSup
         ELSE /\ fdPc' = "sup_loop"
              /\ fdSup' = FdEnter("stop_heater", 0, Abs(out), FdFastRate)
    /\ fdHist' = [fdHist EXCEPT !.shCalls = @ + 1, !.shAuto = fdAutoStop,
                                !.shOpen = fdHist.open,
                                !.shAfterHalt = fdHist.halted]
    /\ UNCHANGED <<fdDriver, fdValue, fdRate, fdAutoStop, fdStop, fdPerforms>>

\* `if self.auto_stop_heater:` not taken
FdSkipStopHeater ==
    /\ UNCHANGED notFd
    /\ fdPc = "auto_stop"
    /\ ~fdAutoStop
    /\ fdPc' = "write_db"
    /\ UNCHANGED <<fdDriver, fdValue, fdRate, fdAutoStop, fdStop, fdHeater,
                   fdUlim, fdSup, fdHist, fdPerforms>>

\* back in perform after set_supervision of stop_heater
FdAfterStopHeater ==
    /\ UNCHANGED notFd
    /\ fdPc = "sup_ret"
    /\ fdSup.for = "stop_heater"
    /\ fdPc' = "write_db"
    /\ UNCHANGED <<fdDriver, fdValue, fdRate, fdAutoStop, fdStop, fdHeater,
                   fdUlim, fdSup, fdHist, fdPerforms>>

\* self.write_in_database('field', target_value)
FdWriteDb ==
    /\ UNCHANGED notFd
    /\ fdPc = "write_db"
    /\ fdPc' = "done"
    /\ UNCHANGED <<fdDriver, fdValue, fdRate, fdAutoStop, fdStop, fdHeater,
                   fdUlim, fdSup, fdHist, fdPerforms>>

\* the task is performed again (a loop over fields), with a new target
FdPerformAgain ==
    /\ UNCHANGED notFd
    /\ fdPc = "done"
    /\ ~fdStop
    /\ fdPerforms < MaxPerforms
    /\ fdPerforms' = fdPerforms + 1
    /\ fdValue' \in FdFields
    /\ fdSup' = FdNoSup
    /\ fdHist' = FdNoHist
    /\ fdPc' = "start"
    /\ UNCHANGED <<fdDriver, fdRate, fdAutoStop, fdStop, fdHeater, fdUlim>>

FdNext ==
    \/ FdStopRequest
    \/ FdEvaluate
    \/ FdPrepareHeaterOn
    \/ FdSupSleep
    \/ FdSupLoopExit
    \/ FdSupHalt
    \/ FdSupCheckCall
    \/ FdCheckReached
    \/ FdCheckRetry
    \/ FdAfterPrepare
    \/ FdGoToField
    \/ FdAfterGoTo
    \/ FdStopHeater
    \/ FdSkipStopHeater
    \/ FdAfterStopHeater
    \/ FdWriteDb
    \/ FdPerformAgain

----------------------------------------------------------------------------
(* The library singletons.  Each thread opens a connection (the controller *)
(* constructs the library class), then makes calls through the controller, *)
(* each inside `with self.library.secure()`.  __new__ is several           *)
(* statements, and loading the native library gives up the interpreter     *)
(* lock, so threads interleave between its test of cls._instance and its   *)
(* assignment.  Library objects are numbered in the order of creation.     *)

NumThreads == 2

MaxCalls == 3

MaxWaited == 6

TimeoutUSMC5 == 2

TimeoutUSMC1 == 5

DlThreads == 1..NumThreads

DlKinds == {"USMC5_USB_Dll", "USMC_CTypes_Dll", "L1ControlUnit"}

\* self.timeout = kwargs.get('timeout', ...), in seconds
DlTimeout(kind) ==
    IF kind = "USMC5_USB_Dll" THEN TimeoutUSMC5 ELSE TimeoutUSMC1

\* lock.acquire() is called without arguments: it blocks until the lock is
\* free and then returns True, so the body of `while not acquire()` never
\* runs
DlCanAcquire(holder) == holder = 0

\* the thread is inside lock.acquire() and another thread holds the lock
DlBlocked(t) ==
    /\ dlPc[t] = "acquire"
    /\ dlLock[dlLib[t]] # 0

DlInit ==
    /\ dlKind \in DlKinds
    /\ dlInstance = 0
    /\ dlLock = <<>>
    /\ dlClosed = {}
    /\ dlEverClosed = FALSE
    /\ dlInDll = {}
    /\ dlPc = [t \in DlThreads |-> "idle"]
    /\ dlSelf = [t \in DlThreads |-> 0]
    /\ dlLib = [t \in DlThreads |-> 0]
    /\ dlOp = [t \in DlThreads |-> "none"]
    /\ dlWaited = [t \in DlThreads |-> 0]
    /\ dlCalls = [t \in DlThreads |-> 0]

DlOff ==
    /\ dlKind = "USMC5_USB_Dll"
    /\ dlInstance = 0
    /\ dlLock = <<>>
    /\ dlClosed = {}
    /\ dlEverClosed = FALSE
    /\ dlInDll = {}
    /\ dlPc = [t \in DlThreads |-> "off"]
    /\ dlSelf = [t \in DlThreads |-> 0]
    /\ dlLib = [t \in DlThreads |-> 0]
    /\ dlOp = [t \in DlThreads |-> "none"]
    /\ dlWaited = [t \in DlThreads |-> 0]
    /\ dlCalls = [t \in DlThreads |-> 0]

\* __new__: `if cls._instance is not None: return cls._instance`
DlNewCheck(t) ==
    /\ UNCHANGED notDl
    /\ dlPc[t] = "idle"
    /\ dlCalls[t] < MaxCalls
    /\ IF dlInstance # 0
       THEN /\ dlLib' = [dlLib EXCEPT ![t] = dlInstance]
            /\ dlPc' = [dlPc EXCEPT ![t] = "ctl"]
            /\ dlCalls' = [dlCalls EXCEPT ![t] = @ + 1]
       ELSE /\ dlPc' = [dlPc EXCEPT ![t] = "new_load"]
            /\ UNCHANGED <<dlLib, dlCalls>>
    /\ UNCHANGED <<dlKind, dlInstance, dlLock, dlClosed, dlEverClosed, dlInDll,
                   dlSelf, dlOp, dlWaited>>

\* __new__: object creation, loading of the native library, self.lock = Lock()
DlNewLoad(t) ==
    /\ UNCHANGED notDl
    /\ dlPc[t] = "new_load"
    /\ dlLock' = Append(dlLock, 0)
    /\ dlSelf' = [dlSelf EXCEPT ![t] = Len(dlLock) + 1]
    /\ dlPc' = [dlPc EXCEPT ![t] = IF dlKind = "USMC5_USB_Dll"
                                   THEN "new_secure" ELSE "new_publish"]
    /\ UNCHANGED <<dlKind, dlInstance, dlClosed, dlEverClosed, dlInDll, dlLib,
                   dlOp, dlWaited, dlCalls>>

\* USMC5_USB_Dll.__new__: `with self.secure(): initialize_motors_info_dll()`
\* enters the library under the new object's own lock
DlNewInitBegin(t) ==
    /\ UNCHANGED notDl
    /\ dlPc[t] = "new_secure"
    /\ DlCanAcquire(dlLock[dlSelf[t]])
    /\ dlLock' = [dlLock EXCEPT ![dlSelf[t]] = t]
    /\ dlInDll' = dlInDll \cup {t}
    /\ dlPc' = [dlPc EXCEPT ![t] = "new_init"]
    /\ UNCHANGED <<dlKind, dlInstance, dlClosed, dlEverClosed, dlSelf, dlLib,
                   dlOp, dlWaited, dlCalls>>

\* initialize_motors_info_dll returns, the lock is released
DlNewInitEnd(t) ==
    /\ UNCHANGED notDl
    /\ dlPc[t] = "new_init"
    /\ dlLock' = [dlLock EXCEPT ![dlSelf[t]] = 0]
    /\ dlInDll' = dlInDll \ {t}
    /\ dlPc' = [dlPc EXCEPT ![t] = "new_publish"]
    /\ UNCHANGED <<dlKind, dlInstance, dlClosed, dlEverClosed, dlSelf, dlLib,
                   dlOp, dlWaited, dlCalls>>

\* __new__: `cls._instance = self; return self`
DlNewPublish(t) ==
    /\ UNCHANGED notDl
    /\ dlPc[t] = "new_publish"
    /\ dlInstance' = dlSelf[t]
    /\ dlLib' = [dlLib EXCEPT ![t] = dlSelf[t]]
    /\ dlSelf' = [dlSelf EXCEPT ![t] = 0]
    /\ dlPc' = [dlPc EXCEPT ![t] = "ctl"]
    /\ dlCalls' = [dlCalls EXCEPT ![t] = @ + 1]
    /\ UNCHANGED <<dlKind, dlLock, dlClosed, dlEverClosed, dlInDll, dlOp,
                   dlWaited>>

\* a controller method starts `with self.library.secure():` for a *_dll
\* call; USMC_Motor.close_connection ends with close_library -> close_dll
DlSecureEnter(t) ==
    /\ UNCHANGED notDl
    /\ dlPc[t] = "ctl"
    /\ dlKind # "L1ControlUnit"
    /\ dlCalls[t] < MaxCalls
    /\ \E op \in (IF dlKind = "USMC_CTypes_Dll" THEN {"call", "close"}
                                                ELSE {"call"}) :
          dlOp' = [dlOp EXCEPT ![t] = op]
    /\ dlWaited' = [dlWaited EXCEPT ![t] = 0]
    /\ dlPc' = [dlPc EXCEPT ![t] = "acquire"]
    /\ UNCHANGED <<dlKind, dlInstance, dlLock, dlClosed, dlEverClosed, dlInDll,
                   dlSelf, dlLib, dlCalls>>

\* secure(): lock.acquire() returns
DlAcquired(t) ==
    /\ UNCHANGED notDl
    /\ dlPc[t] = "acquire"
    /\ DlCanAcquire(dlLock[dlLib[t]])
    /\ dlLock' = [dlLock EXCEPT ![dlLib[t]] = t]
    /\ dlPc' = [dlPc EXCEPT ![t] = "locked"]
    /\ UNCHANGED <<dlKind, dlInstance, dlClosed, dlEverClosed, dlInDll, dlSelf,
                   dlLib, dlOp, dlWaited, dlCalls>>

\* the *_dll method calls into the native library; on a USMC_CTypes_Dll
\* that was closed self._dll is deleted, the method raises AttributeError
\* and secure() releases the lock
DlCallBegin(t) ==
    /\ UNCHANGED notDl
    /\ dlPc[t] = "locked"
    /\ IF dlLib[t] \in dlClosed
       THEN /\ dlLock' = [dlLock EXCEPT ![dlLib[t]] = 0]
            /\ dlPc' = [dlPc EXCEPT ![t] = "failed"]
            /\ UNCHANGED dlInDll
       ELSE /\ dlInDll' = dlInDll \cup {t}
            /\ dlPc' = [dlPc EXCEPT ![t] = "in_dll"]
            /\ UNCHANGED dlLock
    /\ UNCHANGED <<dlKind, dlInstance, dlClosed, dlEverClosed, dlSelf, dlLib,
                   dlOp, dlWaited, dlCalls>>

\* the native call returns; close_dll then deletes self._dll, frees the
\* library and sets cls._instance = None
DlCallEnd(t) ==
    /\ UNCHANGED notDl
    /\ dlPc[t] = "in_dll"
    /\ dlInDll' = dlInDll \ {t}
    /\ IF dlOp[t] = "close"
       THEN /\ dlClosed' = dlClosed \cup {dlLib[t]}
            /\ dlEverClosed' = TRUE
            /\ dlInstance' = 0
       ELSE UNCHANGED <<dlClosed, dlEverClosed, dlInstance>>
    /\ dlPc' = [dlPc EXCEPT ![t] = "release"]
    /\ UNCHANGED <<dlKind, dlLock, dlSelf, dlLib, dlOp, dlWaited, dlCalls>>

\* secure(): `finally: self.lock.release()`; after close_connection the
\* instrument may be opened again
DlRelease(t) ==
    /\ UNCHANGED notDl
    /\ dlPc[t] = "release"
    /\ dlLock' = [dlLock EXCEPT ![dlLib[t]] = 0]
    /\ dlCalls' = [dlCalls EXCEPT ![t] = @ + 1]
    /\ dlPc' = [dlPc EXCEPT ![t] = IF dlOp[t] = "close" THEN "idle" ELSE "ctl"]
    /\ UNCHANGED <<dlKind, dlInstance, dlClosed, dlEverClosed, dlInDll, dlSelf,
                   dlLib, dlOp, dlWaited>>

\* another instrument of the thread opens its connection: a new controller
\* constructs the library class again
DlOpenAgain(t) ==
    /\ UNCHANGED notDl
    /\ dlPc[t] = "ctl"
    /\ dlCalls[t] < MaxCalls
    /\ dlPc' = [dlPc EXCEPT ![t] = "idle"]
    /\ UNCHANGED <<dlKind, dlInstance, dlLock, dlClosed, dlEverClosed, dlInDll,
                   dlSelf, dlLib, dlOp, dlWaited, dlCalls>>

\* one second passes while some thread is blocked in lock.acquire()
DlTick ==
    /\ UNCHANGED notDl
    /\ \E t \in DlThreads : DlBlocked(t) /\ dlWaited[t] < MaxWaited
    /\ dlWaited' = [t \in DlThreads |->
                      IF DlBlocked(t) /\ dlWaited[t] < MaxWaited
                      THEN dlWaited[t] + 1 ELSE dlWaited[t]]
    /\ UNCHANGED <<dlKind, dlInstance, dlLock, dlClosed, dlEverClosed, dlInDll,
                   dlPc, dlSelf, dlLib, dlOp, dlCalls>>

DlNext ==
    \/ \E t \in DlThreads : DlNewCheck(t)
    \/ \E t \in DlThreads : DlNewLoad(t)
    \/ \E t \in DlThreads : DlNewInitBegin(t)
    \/ \E t \in DlThreads : DlNewInitEnd(t)
    \/ \E t \in DlThreads : DlNewPublish(t)
    \/ \E t \in DlThreads : DlSecureEnter(t)
    \/ \E t \in DlThreads : DlAcquired(t)
    \/ \E t \in DlThreads : DlCallBegin(t)
    \/ \E t \in DlThreads : DlCallEnd(t)
    \/ \E t \in DlThreads : DlRelease(t)
    \/ \E t \in DlThreads : DlOpenAgain(t)
    \/ DlTick

----------------------------------------------------------------------------
(* The MagnetPhysik Hall probes.  Each instrument runs in its own thread;  *)
(* open_connection constructs the controller: __new__ returns the          *)
(* singleton, and __init__ then runs on it again.  Lock objects are        *)
(* numbered in the order of creation.                                      *)

NumProbes == 2

MaxOps == 4

HlInstrs == 1..NumProbes

HlMethods == {"read_field", "setup_dc", "close_connection"}

\* the methods whose protected section calls the .NET library
HlProtected == {"read_field", "setup_dc"}

\* MagnetPhysik_DotNet_controller.__init__: `self.lock = Lock()` is executed
\* at every construction
HlLockAfterInit(lock, fresh) == fresh

HlInit ==
    /\ hlLock = 0
    /\ hlLocks = <<>>
    /\ hlPc = [i \in HlInstrs |-> "closed"]
    /\ hlOp = [i \in HlInstrs |-> "none"]
    /\ hlWant = [i \in HlInstrs |-> 0]
    /\ hlOps = [i \in HlInstrs |-> 0]

HlOff ==
    /\ hlLock = 0
    /\ hlLocks = <<>>
    /\ hlPc = [i \in HlInstrs |-> "off"]
    /\ hlOp = [i \in HlInstrs |-> "none"]
    /\ hlWant = [i \in HlInstrs |-> 0]
    /\ hlOps = [i \in HlInstrs |-> 0]

\* HU_PT1_164005.open_connection: MagnetPhysik_DotNet_controller(path)
HlOpenConnection(i) ==
    /\ UNCHANGED notHl
    /\ hlPc[i] = "closed"
    /\ hlOps[i] < MaxOps
    /\ hlLocks' = Append(hlLocks, 0)
    /\ hlLock' = HlLockAfterInit(hlLock, Len(hlLocks) + 1)
    /\ hlPc' = [hlPc EXCEPT ![i] = "open"]
    /\ hlOps' = [hlOps EXCEPT ![i] = @ + 1]
    /\ UNCHANGED <<hlOp, hlWant>>

\* read_field / setup_dc / close_connection: `with self.secure():` evaluates
\* self._cdotnet.lock and calls acquire() on that object
HlSecureEnter(i) ==
    /\ UNCHANGED notHl
    /\ hlPc[i] = "open"
    /\ hlOps[i] < MaxOps
    /\ \E op \in HlMethods : hlOp' = [hlOp EXCEPT ![i] = op]
    /\ hlWant' = [hlWant EXCEPT ![i] = hlLock]
    /\ hlPc' = [hlPc EXCEPT ![i] = "acquire"]
    /\ UNCHANGED <<hlLock, hlLocks, hlOps>>

\* acquire() returns: the instrument is in the protected section
HlAcquired(i) ==
    /\ UNCHANGED notHl
    /\ hlPc[i] = "acquire"
    /\ DlCanAcquire(hlLocks[hlWant[i]])
    /\ hlLocks' = [hlLocks EXCEPT ![hlWant[i]] = i]
    /\ hlPc' = [hlPc EXCEPT ![i] = "inside"]
    /\ UNCHANGED <<hlLock, hlOp, hlWant, hlOps>>

\* `finally: self._cdotnet.lock.release()` evaluates the attribute again:
\* it releases the controller's current Lock, whoever acquired it, and
\* raises RuntimeError when that Lock is not locked
HlRelease(i) ==
    /\ UNCHANGED notHl
    /\ hlPc[i] = "inside"
    /\ IF hlLocks[hlLock] = 0
       THEN /\ hlPc' = [hlPc EXCEPT ![i] = "error"]
            /\ UNCHANGED hlLocks
       ELSE /\ hlLocks' = [hlLocks EXCEPT ![hlLock] = 0]
            /\ hlPc' = [hlPc EXCEPT ![i] =
                          IF hlOp[i] = "close_connection" THEN "closed"
                                                          ELSE "open"]
    /\ hlOps' = [hlOps EXCEPT ![i] = @ + 1]
    /\ UNCHANGED <<hlLock, hlOp, hlWant>>

HlNext ==
    \/ \E i \in HlInstrs : HlOpenConnection(i)
    \/ \E i \in HlInstrs : HlSecureEnter(i)
    \/ \E i \in HlInstrs : HlAcquired(i)
    \/ \E i \in HlInstrs : HlRelease(i)

----------------------------------------------------------------------------
(* Motor moves.  Positions are whole motor steps, times are milliseconds.  *)
(* The motor is the environment: once commanded it reports moving and      *)
(* advances one step at a time, at its own pace, possibly never.           *)

MaxPos == 2

MaxMoves == 2

MotionTimeoutMs == 5000

SleepPrevMs == 30

SleepPollMs == 10

MsPerStep == 100

MvDrivers == {"U8SMC5", "U8SMC1"}

MvPositions == 0..MaxPos

\* exit test of `while self.is_moving():` before the command; moving is the
\* answer of is_moving()
MvPrevLoopExitsAlways(moving) == TRUE

MvPrevLoopExits(moving) == ~moving

\* only the U8SMC5 driver counts t and raises InstrIOError
MvTimedOut(driver, t, limit) == driver = "U8SMC5" /\ t > limit

\* t > self._motion_timeout + desired_motion_steps / self._speed, _speed = 10
MvEndLimit(steps) == MotionTimeoutMs + steps * MsPerStep

MvInit ==
    /\ mvDriver \in MvDrivers
    /\ mvFn = "none"
    /\ mvPc = "idle"
    /\ mvNew = 0
    /\ mvT = 0
    /\ mvStart = 0
    /\ mvSteps = 0
    /\ mvLog = <<>>
    /\ mvWaited = FALSE
    /\ mvCalls = 0
    /\ mvPos = 0
    /\ mvDest \in MvPositions
    /\ mvMoving \in BOOLEAN

MvOff ==
    /\ mvDriver = "U8SMC5"
    /\ mvFn = "none"
    /\ mvPc = "off"
    /\ mvNew = 0
    /\ mvT = 0
    /\ mvStart = 0
    /\ mvSteps = 0
    /\ mvLog = <<>>
    /\ mvWaited = FALSE
    /\ mvCalls = 0
    /\ mvPos = 0
    /\ mvDest = 0
    /\ mvMoving = FALSE

\* move_motor_abs(angle_val): the call starts, t = 0
MvCallAbs(target) ==
    /\ UNCHANGED notMv
    /\ mvPc = "idle"
    /\ mvCalls < MaxMoves
    /\ mvFn' = "abs"
    /\ mvNew' = target
    /\ mvPc' = "wait_prev"
    /\ mvT' = 0
    /\ mvLog' = <<>>
    /\ mvWaited' = FALSE
    /\ mvCalls' = mvCalls + 1
    /\ UNCHANGED <<mvDriver, mvStart, mvSteps, mvPos, mvDest, mvMoving>>

\* move_motor_rel(angle_motion): USMC_Motor reads the present angle and
\* computes new_pos before its wait loop, U8SMC5 keeps the relative motion
MvCallRel(delta) ==
    /\ UNCHANGED notMv
    /\ mvPc = "idle"
    /\ mvCalls < MaxMoves
    /\ mvPos + delta \in MvPositions
    /\ mvFn' = "rel"
    /\ mvNew' = IF mvDriver = "U8SMC1" THEN mvPos + delta ELSE delta
    /\ mvPc' = "wait_prev"
    /\ mvT' = 0
    /\ mvLog' = <<>>
    /\ mvWaited' = FALSE
    /\ mvCalls' = mvCalls + 1
    /\ UNCHANGED <<mvDriver, mvStart, mvSteps, mvPos, mvDest, mvMoving>>

\* one evaluation of `while self.is_moving():` before the command and, when
\* the loop goes on, its body
MvWaitPrev ==
    /\ UNCHANGED notMv
    /\ mvPc = "wait_prev"
    /\ IF MvPrevLoopExits(mvMoving)
       THEN /\ mvLog' = IF mvMoving THEN mvLog ELSE Append(mvLog, "idle")
            /\ mvPc' = "command"
            /\ UNCHANGED <<mvT, mvWaited>>
       ELSE /\ mvWaited' = TRUE
            /\ mvT' = IF mvDriver = "U8SMC5" THEN mvT + SleepPrevMs ELSE mvT
            /\ mvPc' = IF MvTimedOut(mvDriver, mvT + SleepPrevMs, MotionTimeoutMs)
                       THEN "raised" ELSE "wait_prev"
            /\ UNCHANGED mvLog
    /\ UNCHANGED <<mvDriver, mvFn, mvNew, mvStart, mvSteps, mvCalls, mvPos,
                   mvDest, mvMoving>>

\* U8SMC5: start position read, motion required: move_motor / move_motor_rel
MvCommandU5 ==
    /\ UNCHANGED notMv
    /\ mvPc = "command"
    /\ mvDriver = "U8SMC5"
    /\ IF mvFn = "abs" THEN mvNew # mvPos ELSE mvNew # 0
    /\ mvStart' = mvPos
    /\ mvSteps' = IF mvFn = "abs" THEN Abs(mvNew - mvPos) ELSE Abs(mvNew)
    /\ mvDest' = IF mvFn = "abs" THEN mvNew ELSE mvPos + mvNew
    /\ mvMoving' = TRUE
    /\ mvLog' = Append(mvLog, "move")
    /\ mvT' = 0
    /\ mvPc' = "wait_start"
    /\ UNCHANGED <<mvDriver, mvFn, mvNew, mvWaited, mvCalls, mvPos>>

\* U8SMC5: no motion required, the method only logs the status
MvNoMotionU5 ==
    /\ UNCHANGED notMv
    /\ mvPc = "command"
    /\ mvDriver = "U8SMC5"
    /\ IF mvFn = "abs" THEN mvNew = mvPos ELSE mvNew = 0
    /\ mvStart' = mvPos
    /\ mvSteps' = 0
    /\ mvPc' = "done"
    /\ UNCHANGED <<mvDriver, mvFn, mvNew, mvT, mvLog, mvWaited, mvCalls, mvPos,
                   mvDest, mvMoving>>

\* USMC_Motor: self._cu.move_motor(self._motorindex, new_pos), always; the
\* controller reports RUN only while it has steps to make
MvCommandU1 ==
    /\ UNCHANGED notMv
    /\ mvPc = "command"
    /\ mvDriver = "U8SMC1"
    /\ mvDest' = mvNew
    /\ mvMoving' = (mvNew # mvPos)
    /\ mvLog' = Append(mvLog, "move")
    /\ mvPc' = "wait_end"
    /\ UNCHANGED <<mvDriver, mvFn, mvNew, mvT, mvStart, mvSteps, mvWaited,
                   mvCalls, mvPos>>

\* U8SMC5: one round of the wait-for-motion-start loop
MvWaitStart ==
    /\ UNCHANGED notMv
    /\ mvPc = "wait_start"
    /\ IF mvPos # mvStart
       THEN /\ mvT' = 0
            /\ mvPc' = "wait_end"
       ELSE /\ mvT' = mvT + SleepPollMs
            /\ mvPc' = IF MvTimedOut(mvDriver, mvT + SleepPollMs, MotionTimeoutMs)
                       THEN "raised" ELSE "wait_start"
    /\ UNCHANGED <<mvDriver, mvFn, mvNew, mvStart, mvSteps, mvLog, mvWaited,
                   mvCalls, mvPos, mvDest, mvMoving>>

\* one round of the wait-for-motion-end loop; USMC_Motor runs it twice
MvWaitEnd ==
    /\ UNCHANGED notMv
    /\ mvPc \in {"wait_end", "wait_end2"}
    /\ IF ~mvMoving
       THEN /\ mvLog' = Append(mvLog, "idle")
            /\ mvPc' = IF mvDriver = "U8SMC1" /\ mvPc = "wait_end"
                       THEN "wait_end2" ELSE "done"
            /\ UNCHANGED mvT
       ELSE /\ mvT' = IF mvDriver = "U8SMC5" THEN mvT + SleepPollMs ELSE mvT
            /\ mvPc' = IF MvTimedOut(mvDriver, mvT + SleepPollMs,
                                     MvEndLimit(mvSteps))
                       THEN "raised" ELSE mvPc
            /\ UNCHANGED mvLog
    /\ UNCHANGED <<mvDriver, mvFn, mvNew, mvStart, mvSteps, mvWaited, mvCalls,
                   mvPos, mvDest, mvMoving>>

\* the method returns or its InstrIOError reaches the caller
MvReturn ==
    /\ UNCHANGED notMv
    /\ mvPc \in {"done", "raised"}
    /\ mvPc' = "idle"
    /\ mvFn' = "none"
    /\ mvNew' = 0
    /\ mvT' = 0
    /\ mvStart' = 0
    /\ mvSteps' = 0
    /\ UNCHANGED <<mvDriver, mvLog, mvWaited, mvCalls, mvPos, mvDest, mvMoving>>

\* the motor makes a step towards its destination, or stops at it
MvMotorStep ==
    /\ UNCHANGED notMv
    /\ mvMoving
    /\ IF mvPos = mvDest
       THEN /\ mvMoving' = FALSE
            /\ UNCHANGED mvPos
       ELSE /\ mvPos' = IF mvPos < mvDest THEN mvPos + 1 ELSE mvPos - 1
            /\ UNCHANGED mvMoving
    /\ UNCHANGED <<mvDriver, mvFn, mvPc, mvNew, mvT, mvStart, mvSteps, mvLog,
                   mvWaited, mvCalls, mvDest>>

MvNext ==
    \/ \E target \in MvPositions : MvCallAbs(target)
    \/ \E delta \in {-1, 0, 1} : MvCallRel(delta)
    \/ MvWaitPrev
    \/ MvCommandU5
    \/ MvNoMotionU5
    \/ MvCommandU1
    \/ MvWaitStart
    \/ MvWaitEnd
    \/ MvReturn
    \/ MvMotorStep

----------------------------------------------------------------------------
(* Standard settings of the 8MRU-1TP motors.  Instruments are opened and   *)
(* closed one after the other; every open builds a new USMC5_Controller on *)
(* the one USMC5_USB_Dll object, which holds the settings-done flags.      *)
(* The device with index k has serial id k.                                *)

MaxDevices == 2

MaxOpens == 3

SgCalls == <<"standard", "engine", "move", "home", "noemf", "power", "brake",
             "control">>

SgResults == {"Ok", "Error"}

\* initialize_motors_info_dll appends the same c_uint32 object for every
\* device: each entry of _serials reads as the serial enumerated last
SgSerialValue(devCount, ind) == devCount

\* the loops of open_device_dll / get_settings_done_dll /
\* set_settings_done_dll: first index whose serial value matches, 0 if none
SgFindIndex(devCount, serial) ==
    IF \E ind \in 1..devCount : SgSerialValue(devCount, ind) = serial
    THEN CHOOSE ind \in 1..devCount :
            /\ SgSerialValue(devCount, ind) = serial
            /\ \A j \in 1..(ind - 1) : SgSerialValue(devCount, j) # serial
    ELSE 0

\* open_connection with the test of the flag left out
SgNeedsSettingsAlways(done) == TRUE

\* `if not(self._cu.get_settings_done(self._id)):`
SgNeedsSettings(done) == ~done

SgInit ==
    /\ sgDevCount \in 1..MaxDevices
    /\ sgDone = [k \in 1..sgDevCount |-> FALSE]
    /\ sgPc = "closed"
    /\ sgSerial = 0
    /\ sgIdx = 0
    /\ sgStep = 0
    /\ sgExec = [k \in 1..sgDevCount |-> [c \in 1..Len(SgCalls) |-> 0]]
    /\ sgOkAtSet = [k \in 1..sgDevCount |-> 0]
    /\ sgCompleted = [k \in 1..sgDevCount |-> 0]
    /\ sgSkipped = FALSE
    /\ sgOpens = 0

SgOff ==
    /\ sgDevCount = 1
    /\ sgDone = <<FALSE>>
    /\ sgPc = "off"
    /\ sgSerial = 0
    /\ sgIdx = 0
    /\ sgStep = 0
    /\ sgExec = <<[c \in 1..Len(SgCalls) |-> 0]>>
    /\ sgOkAtSet = <<0>>
    /\ sgCompleted = <<0>>
    /\ sgSkipped = FALSE
    /\ sgOpens = 0

\* open_connection: request_motor raises, the serial is not in the
\* controller's list
SgOpenUnknownSerial(serial) ==
    /\ UNCHANGED notSg
    /\ sgPc = "closed"
    /\ sgOpens < MaxOpens
    /\ SgFindIndex(sgDevCount, serial) = 0
    /\ sgSerial' = serial
    /\ sgIdx' = 0
    /\ sgPc' = "raised"
    /\ sgOpens' = sgOpens + 1
    /\ UNCHANGED <<sgDevCount, sgDone, sgStep, sgExec, sgOkAtSet, sgCompleted,
                   sgSkipped>>

\* open_connection: request_motor, then get_settings_done decides whether
\* the settings calls are made
SgOpen(serial) ==
    /\ UNCHANGED notSg
    /\ sgPc = "closed"
    /\ sgOpens < MaxOpens
    /\ SgFindIndex(sgDevCount, serial) # 0
    /\ sgSerial' = serial
    /\ sgIdx' = SgFindIndex(sgDevCount, serial)
    /\ sgOpens' = sgOpens + 1
    /\ IF SgNeedsSettings(sgDone[SgFindIndex(sgDevCount, serial)])
       THEN /\ sgPc' = "settings"
            /\ sgStep' = 1
            /\ sgSkipped' = FALSE
       ELSE /\ sgPc' = "open"
            /\ sgStep' = 0
            /\ sgSkipped' = TRUE
    /\ UNCHANGED <<sgDevCount, sgDone, sgExec, sgOkAtSet, sgCompleted>>

\* apply_standard_settings: the motor's friendly name is not '8MRU-1TP',
\* InstrIOError before the profile is applied
SgNameMismatch ==
    /\ UNCHANGED notSg
    /\ sgPc = "settings"
    /\ sgStep = 1
    /\ sgPc' = "raised"
    /\ UNCHANGED <<sgDevCount, sgDone, sgSerial, sgIdx, sgStep, sgExec,
                   sgOkAtSet, sgCompleted, sgSkipped, sgOpens>>

\* one of apply_standard_settings, apply_engine_settings, ...,
\* apply_control_settings: the library call runs and InstrIOError is raised
\* unless it returned Result.Ok
SgSettingsCall(result) ==
    /\ UNCHANGED notSg
    /\ sgPc = "settings"
    /\ sgExec' = [sgExec EXCEPT ![sgIdx][sgStep] = @ + 1]
    /\ IF result = "Ok"
       THEN /\ sgStep' = sgStep + 1
            /\ sgPc' = IF sgStep = Len(SgCalls) THEN "set_done" ELSE "settings"
       ELSE /\ sgPc' = "raised"
            /\ UNCHANGED sgStep
    /\ UNCHANGED <<sgDevCount, sgDone, sgSerial, sgIdx, sgOkAtSet, sgCompleted,
                   sgSkipped, sgOpens>>

\* self._cu.set_settings_done(self._id)
SgSetSettingsDone ==
    /\ UNCHANGED notSg
    /\ sgPc = "set_done"
    /\ sgDone' = [sgDone EXCEPT ![sgIdx] = TRUE]
    /\ sgOkAtSet' = [sgOkAtSet EXCEPT ![sgIdx] = sgStep - 1]
    /\ sgCompleted' = [sgCompleted EXCEPT ![sgIdx] = @ + 1]
    /\ sgPc' = "open"
    /\ UNCHANGED <<sgDevCount, sgSerial, sgIdx, sgStep, sgExec, sgSkipped,
                   sgOpens>>

\* close_connection: release_motor
SgClose ==
    /\ UNCHANGED notSg
    /\ sgPc = "open"
    /\ sgPc' = "closed"
    /\ UNCHANGED <<sgDevCount, sgDone, sgSerial, sgIdx, sgStep, sgExec,
                   sgOkAtSet, sgCompleted, sgSkipped, sgOpens>>

\* the InstrIOError of a failed open reaches the caller; another instrument
\* can be opened
SgOpenFailed ==
    /\ UNCHANGED notSg
    /\ sgPc = "raised"
    /\ sgPc' = "closed"
    /\ sgStep' = 0
    /\ UNCHANGED <<sgDevCount, sgDone, sgSerial, sgIdx, sgExec, sgOkAtSet,
                   sgCompleted, sgSkipped, sgOpens>>

SgNext ==
    \/ \E serial \in 1..MaxDevices : SgOpenUnknownSerial(serial)
    \/ \E serial \in 1..MaxDevices : SgOpen(serial)
    \/ SgNameMismatch
    \/ \E result \in SgResults : SgSettingsCall(result)
    \/ SgSetSettingsDone
    \/ SgClose
    \/ SgOpenFailed

----------------------------------------------------------------------------
(* The demodulation tasks.  Every assignment to a flag stores the value    *)
(* and then runs the member's _post_setattr_ handler; database_entries is  *)
(* modelled by its set of keys.                                            *)

MaxAssigns == 5

DmTasks == {"DemodAlazarTask", "DemodSPTask"}

DmChannels == {1, 2}

DmKeyI(n) == IF n = 1 THEN "Ch1_I" ELSE "Ch2_I"

DmKeyQ(n) == IF n = 1 THEN "Ch1_Q" ELSE "Ch2_Q"

DmKeyTrace(n) == IF n = 1 THEN "Ch1_trace" ELSE "Ch2_trace"

\* the `defaults` built by _post_setattr_chn_trace
DmTraceDefaults(task, n) ==
    {DmKeyTrace(n)} \cup
    (IF task = "DemodSPTask" /\ n = 1
     THEN {"ChI_trace_corr", "ChQ_trace_corr"} ELSE {})

\* the `entries` built by _post_setattr_chn_enabled
DmEnabledDefaults(task, n, trace) ==
    {DmKeyI(n), DmKeyQ(n)} \cup
    (IF task = "DemodSPTask" /\ n = 1 THEN {"Chc_I", "Chc_Q"} ELSE {}) \cup
    (IF trace THEN DmTraceDefaults(task, n) ELSE {})

\* _post_setattr_chn_trace without its early return
DmTraceIgnoredNever(new, enabled) == FALSE

\* _post_setattr_chn_trace: `if new and not self.chn_enabled: return`
DmTraceIgnored(new, enabled) == new /\ ~enabled

\* _update_entries on the keys
DmUpdateEntries(entries, new, defaults) ==
    IF new THEN entries \cup defaults ELSE entries \ defaults

\* set_default of database_entries
DmDefaultEntries(task) ==
    {"Ch1_I", "Ch1_Q", "Ch2_I", "Ch2_Q"} \cup
    (IF task = "DemodSPTask" THEN {"Chc_I", "Chc_Q"} ELSE {})

DmInit ==
    /\ dmTask \in DmTasks
    /\ dmEnabled = [n \in DmChannels |-> TRUE]
    /\ dmTrace = [n \in DmChannels |-> FALSE]
    /\ dmEntries = DmDefaultEntries(dmTask)
    /\ dmAssigns = 0

DmOff ==
    /\ dmTask = "off"
    /\ dmEnabled = [n \in DmChannels |-> TRUE]
    /\ dmTrace = [n \in DmChannels |-> FALSE]
    /\ dmEntries = {}
    /\ dmAssigns = 0

\* task.chn_enabled = new, then _post_setattr_chn_enabled(old, new)
DmSetEnabled(n, new) ==
    /\ UNCHANGED notDm
    /\ dmTask \in DmTasks
    /\ dmAssigns < MaxAssigns
    /\ dmEnabled' = [dmEnabled EXCEPT ![n] = new]
    /\ dmEntries' = DmUpdateEntries(dmEntries, new,
                                    DmEnabledDefaults(dmTask, n, dmTrace[n]))
    /\ dmAssigns' = dmAssigns + 1
    /\ UNCHANGED <<dmTask, dmTrace>>

\* task.chn_trace = new, then _post_setattr_chn_trace(old, new)
DmSetTrace(n, new) ==
    /\ UNCHANGED notDm
    /\ dmTask \in DmTasks
    /\ dmAssigns < MaxAssigns
    /\ dmTrace' = [dmTrace EXCEPT ![n] = new]
    /\ dmEntries' = IF DmTraceIgnored(new, dmEnabled[n])
                    THEN dmEntries
                    ELSE DmUpdateEntries(dmEntries, new,
                                         DmTraceDefaults(dmTask, n))
    /\ dmAssigns' = dmAssigns + 1
    /\ UNCHANGED <<dmTask, dmEnabled>>

DmNext ==
    \/ \E n \in DmChannels, new \in BOOLEAN : DmSetEnabled(n, new)
    \/ \E n \in DmChannels, new \in BOOLEAN : DmSetTrace(n, new)

----------------------------------------------------------------------------
(* update_task.  A section is [vals, subs]: vals maps its scalar keys to   *)
(* their values, subs is the ordered list of its sub-sections, each        *)
(* [name, sec].  A sub-section name is [kind, i]: kind "children_task"     *)
(* with i stands for 'children_task_%d' % i.  The string under             *)
(* 'access_exs' is held parsed, as literal_eval reads it: [form "list",    *)
(* items] or [form "dict", map]; an exception name is held as the list     *)
(* ex.split('_') gives.                                                    *)

MaxChildren == 2

CvLoopEntries == {"start", "stop", "step", "points_number", "iterable"}

\* the classes of TASKS used here, with their ecpy ids
CvTasks == [ComplexTask |-> "ecpy.ComplexTask",
            LoopTask |-> "ecpy.LoopTask",
            LogTask |-> "ecpy.LogTask"]

CvHas(vals, k) == k \in DOMAIN vals

CvDel(vals, k) == [x \in (DOMAIN vals) \ {k} |-> vals[x]]

\* section[k] = v
CvSet(vals, k, v) ==
    [x \in (DOMAIN vals) \cup {k} |-> IF x = k THEN v ELSE vals[x]]

\* s['access_exs'] = repr(exs) with the other keys of s dropped
CvWriteAccessOnly(vals, exs) == [x \in {"access_exs"} |-> exs]

\* s['access_exs'] = repr(exs)
CvWriteAccess(vals, exs) == CvSet(vals, "access_exs", exs)

CvList(items) == [form |-> "list", items |-> items]

CvDict(map) == [form |-> "dict", map |-> map]

\* s.get('access_exs', default), parsed
CvGetAccess(vals, default) ==
    IF CvHas(vals, "access_exs") THEN vals["access_exs"] ELSE default

\* position of the sub-section called 'task', 0 if there is none
CvTaskSub(sec) ==
    IF \E j \in 1..Len(sec.subs) : sec.subs[j].name.kind = "task"
    THEN CHOOSE j \in 1..Len(sec.subs) : sec.subs[j].name.kind = "task"
    ELSE 0

\* fix_access_exs, the body run on the exporting task s at the current
\* depth: the result is [sec, raised]
CvExport(s, entry, depth) ==
    LET loop == s.vals["task_class"] = "LoopTask" /\ entry \notin CvLoopEntries
        j == CvTaskSub(s)
        tgt == IF loop THEN s.subs[j].sec ELSE s
        d == IF loop THEN depth + 1 ELSE depth
        exs == CvGetAccess(tgt.vals, CvDict(<<>>))
        new == [tgt EXCEPT !.vals = CvWriteAccess(@,
                   CvDict(CvSet(exs.map, entry, d)))]
    IN  IF loop /\ j = 0 THEN [sec |-> s, raised |-> TRUE]
        ELSE IF exs.form # "dict" THEN [sec |-> s, raised |-> TRUE]
        ELSE IF loop THEN [sec |-> [s EXCEPT !.subs[j].sec = new],
                           raised |-> FALSE]
        ELSE [sec |-> new, raised |-> FALSE]

\* fix_access_exs(task_config, ex, depth): the for loop from its i-th
\* section on
RECURSIVE CvFixFrom(_, _, _, _)
CvFixFrom(cfg, ex, depth, i) ==
    IF i > Len(cfg.subs) THEN [sec |-> cfg, raised |-> FALSE]
    ELSE
    LET s == cfg.subs[i].sec
        exs == CvGetAccess(s.vals, CvList(<<>>))
        listed == /\ exs.form = "list"
                  /\ \E j \in 1..Len(exs.items) : exs.items[j] = ex
    IN  IF listed
        THEN LET s1 == [s EXCEPT !.vals = CvWriteAccess(@,
                           CvList(RemoveFirst(exs.items, ex)))]
                 r == CvFixFrom(s1, ex, depth + 1, 1)
                 cfg1 == [cfg EXCEPT !.subs[i].sec = r.sec]
             IN  IF r.raised THEN [sec |-> cfg1, raised |-> TRUE]
                 ELSE CvFixFrom(cfg1, ex, depth + 1, i + 1)
        ELSE IF CvHas(s.vals, "task_name") /\ s.vals["task_name"] = ex[1]
        THEN LET r == CvExport(s, ex[2], depth)
             IN  [sec |-> [cfg EXCEPT !.subs[i].sec = r.sec],
                  raised |-> r.raised]
        ELSE CvFixFrom(cfg, ex, depth, i + 1)

\* `for ex in exs: fix_access_exs(task_config, ex, 1)` from the k-th
\* exception on; `task_name, entry = ex.split('_')` raises ValueError
\* unless the split gives two parts
RECURSIVE CvFixAll(_, _, _)
CvFixAll(cfg, exs, k) ==
    IF k > Len(exs) THEN [sec |-> cfg, raised |-> FALSE]
    ELSE IF Len(exs[k]) # 2 THEN [sec |-> cfg, raised |-> TRUE]
    ELSE LET r == CvFixFrom(cfg, exs[k], 1, 1)
         IN  IF r.raised THEN r ELSE CvFixAll(r.sec, exs, k + 1)

\* the `while 'children_task_%d' % i in task_config` loop: number of
\* renamed sub-sections
CvChildrenCount(subs) ==
    CHOOSE n \in 0..Len(subs) :
        /\ \A i \in 0..(n - 1) :
              \E j \in 1..Len(subs) :
                  subs[j].name = [kind |-> "children_task", i |-> i]
        /\ ~\E j \in 1..Len(subs) :
              subs[j].name = [kind |-> "children_task", i |-> n]

\* rename('children_task_%d' % i, 'children_%d' % i) keeps the position
\* and the content of the sub-section
CvRenameChildren(subs) ==
    [j \in 1..Len(subs) |->
        IF /\ subs[j].name.kind = "children_task"
           /\ subs[j].name.i < CvChildrenCount(subs)
        THEN [subs[j] EXCEPT !.name.kind = "children"]
        ELSE subs[j]]

\* update_task up to the test of 'access_exs'
CvUpdateKeys(cfg) ==
    LET v1 == CvDel(CvSet(cfg.vals, "task_id",
                          CvTasks[cfg.vals["task_class"]]), "task_class")
        v2 == CvSet(v1, "dep_type", "ecpy.task")
        v3 == CvDel(CvSet(v2, "name", v2["task_name"]), "task_name")
        v4 == CvDel(CvDel(v3, "selected_driver"), "selected_profile")
    IN  [vals |-> v4, subs |-> CvRenameChildren(cfg.subs)]

\* update_task(task_config): the result is [sec, raised]
CvUpdateTask(cfg) ==
    IF cfg.vals["task_class"] \notin DOMAIN CvTasks
    THEN [sec |-> cfg, raised |-> TRUE]
    ELSE
    LET c1 == CvUpdateKeys(cfg)
    IN  IF ~CvHas(c1.vals, "access_exs")
        THEN [sec |-> c1, raised |-> FALSE]
        ELSE IF c1.vals["access_exs"] = CvList(<<>>)
        THEN [sec |-> [c1 EXCEPT !.vals = CvDel(@, "access_exs")],
              raised |-> FALSE]
        ELSE IF c1.vals["access_exs"].form = "dict"
        THEN [sec |-> c1, raised |-> FALSE]
        ELSE LET r == CvFixAll(c1, c1.vals["access_exs"].items, 1)
             IN  IF r.raised THEN r
                 ELSE [sec |-> [r.sec EXCEPT !.vals = CvDel(@, "access_exs")],
                       raised |-> FALSE]

\* ---- the sections update_task is applied to

CvEx == <<"a", "x">>

CvExLoop == <<"a", "start">>

CvExUnsplit == <<"a", "points", "number">>

CvAccessValues ==
    {CvList(<<>>), CvList(<<CvEx>>), CvList(<<CvExLoop>>),
     CvList(<<CvExUnsplit>>), CvDict(<<>>), CvDict([y |-> 1])}

CvTaskVals(class, name) == [task_class |-> class, task_name |-> name]

CvWithAccess(vals) ==
    {vals} \cup {CvSet(vals, "access_exs", a) : a \in CvAccessValues}

CvLeaves ==
    {[vals |-> v, subs |-> <<>>] :
        v \in {CvTaskVals("LogTask", "a"), CvTaskVals("LogTask", "b"),
               CvSet(CvTaskVals("LogTask", "a"), "access_exs",
                     CvDict([y |-> 1])),
               CvSet(CvTaskVals("LogTask", "a"), "access_exs",
                     CvList(<<CvEx>>))}}

CvSub(kind, i, sec) == [name |-> [kind |-> kind, i |-> i], sec |-> sec]

\* a LoopTask named a with its 'task' sub-section, a ComplexTask with one
\* child
CvInner ==
    {[vals |-> CvTaskVals("LoopTask", "a"),
      subs |-> <<CvSub("task", 0, leaf)>>] : leaf \in CvLeaves}
    \cup
    {[vals |-> v, subs |-> <<CvSub("children_task", 0, leaf)>>] :
        v \in {CvTaskVals("ComplexTask", "c"),
               CvSet(CvTaskVals("ComplexTask", "c"), "access_exs",
                     CvList(<<CvEx>>))},
        leaf \in CvLeaves}

CvChildren == CvLeaves \cup CvInner

RECURSIVE CvSubLists(_)
CvSubLists(n) ==
    IF n = 0 THEN {<<>>}
    ELSE LET shorter == CvSubLists(n - 1)
         IN  shorter \cup
             {Append(l, CvSub("children_task", Len(l), c)) :
                 l \in {x \in shorter : Len(x) = n - 1}, c \in CvChildren}

CvTopVals ==
    CvWithAccess(CvTaskVals("ComplexTask", "root"))
    \cup {CvSet(CvTaskVals("ComplexTask", "root"), "selected_driver", "d"),
          CvTaskVals("FooTask", "root")}

CvInputs ==
    {[vals |-> v, subs |-> l] : v \in CvTopVals, l \in CvSubLists(MaxChildren)}

CvInit ==
    /\ cvBefore \in CvInputs
    /\ cvSection = cvBefore
    /\ cvPc = "start"

CvOff ==
    /\ cvBefore = <<>>
    /\ cvSection = <<>>
    /\ cvPc = "off"

\* update_task(section) returns
CvUpdateTaskReturns ==
    /\ UNCHANGED notCv
    /\ cvPc = "start"
    /\ ~CvUpdateTask(cvSection).raised
    /\ cvSection' = CvUpdateTask(cvSection).sec
    /\ cvPc' = "done"
    /\ UNCHANGED cvBefore

\* update_task(section) raises ValueError, RuntimeError or KeyError; what
\* it changed before stays changed
CvUpdateTaskRaises ==
    /\ UNCHANGED notCv
    /\ cvPc = "start"
    /\ CvUpdateTask(cvSection).raised
    /\ cvSection' = CvUpdateTask(cvSection).sec
    /\ cvPc' = "raised"
    /\ UNCHANGED cvBefore

CvNext ==
    \/ CvUpdateTaskReturns
    \/ CvUpdateTaskRaises

----------------------------------------------------------------------------
(* ZVA24Channel.run_averaging (ZVKChannel.run_averaging is the same code). *)
(* A Python value is [t, v]: the str holding the decimal digits of v, or   *)
(* the int v.  query() returns the instrument's answer as a str, as the    *)
(* int(...) around every other query of the driver shows.                  *)

MaxCount == 3

MaxDoublings == 2

ZvStr(n) == [t |-> "str", v |-> n]

ZvInt(n) == [t |-> "int", v |-> n]

ZvNoArg == [t |-> "str", v |-> -1]

\* Python's a != b on such values: a str never equals an int
ZvNotEqual(a, b) == a.t # b.t \/ a.v # b.v

\* Python's int(a)
ZvToInt(a) == ZvInt(a.v)

\* `if done != 1:` on the answer of query('*OPC?')
ZvNotComplete(done) == ZvNotEqual(done, ZvInt(1))

\* the aver_count values a caller passes: none, a str or an int
ZvArgs ==
    {ZvNoArg} \cup {ZvStr(n) : n \in 1..MaxCount}
              \cup {ZvInt(n) : n \in 1..MaxCount}

ZvInit ==
    /\ zvPc = "idle"
    /\ zvArg = ZvNoArg
    /\ zvCount \in 1..MaxCount
    /\ zvI = 0
    /\ zvDoublings = 0
    /\ zvAnswers = <<>>

ZvOff ==
    /\ zvPc = "off"
    /\ zvArg = ZvNoArg
    /\ zvCount = 1
    /\ zvI = 0
    /\ zvDoublings = 0
    /\ zvAnswers = <<>>

\* run_averaging(aver_count): trigger source, sweep mode, clear_averaging,
\* timeout = 10
ZvCall(arg) ==
    /\ UNCHANGED notZv
    /\ zvPc = "idle"
    /\ zvArg' = arg
    /\ zvPc' = IF arg = ZvNoArg THEN "average_state" ELSE "set_count"
    /\ UNCHANGED <<zvCount, zvI, zvDoublings, zvAnswers>>

\* `self.average_count = aver_count`: the count is written, read back as a
\* str and `int(result) != value` decides on InstrIOError; set tells whether
\* the instrument took the value
ZvSetCount(set) ==
    /\ UNCHANGED notZv
    /\ zvPc = "set_count"
    /\ zvCount' = IF set THEN zvArg.v ELSE zvCount
    /\ zvPc' = IF ZvNotEqual(ZvToInt(ZvStr(zvCount')), zvArg)
               THEN "io_error" ELSE "average_state"
    /\ UNCHANGED <<zvArg, zvI, zvDoublings, zvAnswers>>

\* `self.average_state = 1` and the evaluation of range(0, average_count)
ZvStartLoop ==
    /\ UNCHANGED notZv
    /\ zvPc = "average_state"
    /\ zvI' = 0
    /\ zvPc' = "query"
    /\ UNCHANGED <<zvArg, zvCount, zvDoublings, zvAnswers>>

\* query('*OPC?') raises (a timeout): the timeout is doubled and the query
\* is repeated
ZvQueryFails ==
    /\ UNCHANGED notZv
    /\ zvPc = "query"
    /\ zvDoublings < MaxDoublings
    /\ zvDoublings' = zvDoublings + 1
    /\ UNCHANGED <<zvPc, zvArg, zvCount, zvI, zvAnswers>>

\* query('*OPC?') returns the answer, `if done != 1: raise InstrError`
ZvQueryAnswered(answer) ==
    /\ UNCHANGED notZv
    /\ zvPc = "query"
    /\ zvAnswers' = Append(zvAnswers, answer)
    /\ IF ZvNotComplete(ZvStr(answer))
       THEN /\ zvPc' = "raised"
            /\ UNCHANGED zvI
       ELSE /\ zvI' = zvI + 1
            /\ zvPc' = IF zvI + 1 = zvCount THEN "returned" ELSE "query"
    /\ UNCHANGED <<zvArg, zvCount, zvDoublings>>

\* the call is over, the channel can be used again
ZvEnd ==
    /\ UNCHANGED notZv
    /\ zvPc \in {"raised", "returned", "io_error"}
    /\ zvPc' = "idle"
    /\ zvI' = 0
    /\ zvDoublings' = 0
    /\ zvAnswers' = <<>>
    /\ UNCHANGED <<zvArg, zvCount>>

ZvNext ==
    \/ \E arg \in ZvArgs : ZvCall(arg)
    \/ \E set \in BOOLEAN : ZvSetCount(set)
    \/ ZvStartLoop
    \/ ZvQueryFails
    \/ \E answer \in {0, 1} : ZvQueryAnswered(answer)
    \/ ZvEnd

----------------------------------------------------------------------------
(* InstrHelper.  The mock is built with attrs = {'queued': [a1, ..., an],  *)
(* 'single': a}; 'absent' is a name it was not given.  An answer is        *)
(* [exc, id]: exc tells whether it is an Exception instance.               *)

MaxAnswers == 2

MaxSets == 2

MaxIds == 1

IhValues == [exc : BOOLEAN, id : 1..MaxIds]

\* val[::-1]
IhReverse(s) == [i \in 1..Len(s) |-> s[Len(s) + 1 - i]]

\* the lists of at most n answers
RECURSIVE IhLists(_)
IhLists(n) ==
    IF n = 0 THEN {<<>>}
    ELSE LET shorter == IhLists(n - 1)
         IN  shorter \cup {Append(l, a) : l \in {x \in shorter : Len(x) = n - 1},
                                          a \in IhValues}

\* list.append(value)
IhInsertLast(list, value) == Append(list, value)

\* _attrs[name].insert(0, value)
IhInsert(list, value) == <<value>> \o list

\* the element _attrs[name].pop() returns, and the list it leaves
IhPopped(list) == list[Len(list)]

IhAfterPop(list) == SubSeq(list, 1, Len(list) - 1)

\* `if isinstance(attr, Exception): raise attr else: return attr`
IhOutcome(attr) ==
    [kind |-> IF attr.exc THEN "raised" ELSE "returned", value |-> attr]

IhInit ==
    /\ \E given \in IhLists(MaxAnswers) :
          /\ ihStored = IhReverse(given)
          /\ ihQueued = given
          /\ ihGiven = Len(given)
    /\ ihSingle \in IhValues
    /\ ihReads = <<>>
    /\ ihLast = "none"

IhOff ==
    /\ ihStored = <<>>
    /\ ihSingle = [exc |-> FALSE, id |-> 1]
    /\ ihGiven = 0
    /\ ihQueued = <<>>
    /\ ihReads = <<>>
    /\ ihLast = "off"

\* __getattr__('queued'): pop() of the stored list
IhGetQueued ==
    /\ UNCHANGED notIh
    /\ ihLast # "off"
    /\ ihStored # <<>>
    /\ ihStored' = IhAfterPop(ihStored)
    /\ ihReads' = Append(ihReads, IhOutcome(IhPopped(ihStored)))
    /\ ihLast' = IhOutcome(IhPopped(ihStored)).kind
    /\ UNCHANGED <<ihSingle, ihGiven, ihQueued>>

\* __getattr__('queued') on the empty list: pop() raises IndexError
IhGetQueuedEmpty ==
    /\ UNCHANGED notIh
    /\ ihLast # "off"
    /\ ihStored = <<>>
    /\ ihLast' = "IndexError"
    /\ UNCHANGED <<ihStored, ihSingle, ihGiven, ihQueued, ihReads>>

\* __getattr__('single'): the answer is not a list and stays
IhGetSingle ==
    /\ UNCHANGED notIh
    /\ ihLast # "off"
    /\ ihLast' = IhOutcome(ihSingle).kind
    /\ UNCHANGED <<ihStored, ihSingle, ihGiven, ihQueued, ihReads>>

\* __getattr__ / __setattr__ of a name that is in neither dict
IhAbsent ==
    /\ UNCHANGED notIh
    /\ ihLast # "off"
    /\ ihLast' = "AttributeError"
    /\ UNCHANGED <<ihStored, ihSingle, ihGiven, ihQueued, ihReads>>

\* __setattr__('queued', value)
IhSetQueued(value) ==
    /\ UNCHANGED notIh
    /\ ihLast # "off"
    /\ Len(ihQueued) < ihGiven + MaxSets
    /\ ihStored' = IhInsert(ihStored, value)
    /\ ihQueued' = Append(ihQueued, value)
    /\ ihLast' = "assigned"
    /\ UNCHANGED <<ihSingle, ihGiven, ihReads>>

\* __setattr__('single', value)
IhSetSingle(value) ==
    /\ UNCHANGED notIh
    /\ ihLast # "off"
    /\ ihSingle' = value
    /\ ihLast' = "assigned"
    /\ UNCHANGED <<ihStored, ihGiven, ihQueued, ihReads>>

IhNext ==
    \/ IhGetQueued
    \/ IhGetQueuedEmpty
    \/ IhGetSingle
    \/ IhAbsent
    \/ \E value \in IhValues : IhSetQueued(value)
    \/ \E value \in IhValues : IhSetSingle(value)

----------------------------------------------------------------------------
(* The specifications: one machine runs, the others stay parked.           *)

InitAlazar == AzInit /\ StOff /\ FdOff /\ DlOff /\ HlOff /\ MvOff /\ SgOff /\ DmOff /\ CvOff /\ ZvOff /\ IhOff

NextAlazar == AzNext

InitSetter == StInit /\ AzOff /\ FdOff /\ DlOff /\ HlOff /\ MvOff /\ SgOff /\ DmOff /\ CvOff /\ ZvOff /\ IhOff

NextSetter == StNext

SpecSetter == InitSetter /\ [][NextSetter]_vars

InitField == FdInit /\ AzOff /\ StOff /\ DlOff /\ HlOff /\ MvOff /\ SgOff /\ DmOff /\ CvOff /\ ZvOff /\ IhOff

NextField == FdNext

SpecField == InitField /\ [][NextField]_vars

InitDll == DlInit /\ AzOff /\ StOff /\ FdOff /\ HlOff /\ MvOff /\ SgOff /\ DmOff /\ CvOff /\ ZvOff /\ IhOff

NextDll == DlNext

SpecDll == InitDll /\ [][NextDll]_vars

InitHall == HlInit /\ AzOff /\ StOff /\ FdOff /\ DlOff /\ MvOff /\ SgOff /\ DmOff /\ CvOff /\ ZvOff /\ IhOff

NextHall == HlNext

SpecHall == InitHall /\ [][NextHall]_vars

InitMove == MvInit /\ AzOff /\ StOff /\ FdOff /\ DlOff /\ HlOff /\ SgOff /\ DmOff /\ CvOff /\ ZvOff /\ IhOff

NextMove == MvNext

SpecMove == InitMove /\ [][NextMove]_vars

InitSettings ==
    SgInit /\ AzOff /\ StOff /\ FdOff /\ DlOff /\ HlOff /\ MvOff /\ DmOff /\ CvOff /\ ZvOff /\ IhOff

NextSettings == SgNext

SpecSettings == InitSettings /\ [][NextSettings]_vars

SpecAlazar == InitAlazar /\ [][NextAlazar]_vars

InitDemod ==
    DmInit /\ AzOff /\ StOff /\ FdOff /\ DlOff /\ HlOff /\ MvOff /\ SgOff /\ CvOff /\ ZvOff /\ IhOff

NextDemod == DmNext

SpecDemod == InitDemod /\ [][NextDemod]_vars

InitConvert ==
    CvInit /\ AzOff /\ StOff /\ FdOff /\ DlOff /\ HlOff /\ MvOff /\ SgOff /\ DmOff /\ ZvOff /\ IhOff

NextConvert == CvNext

SpecConvert == InitConvert /\ [][NextConvert]_vars

InitAveraging ==
    ZvInit /\ AzOff /\ StOff /\ FdOff /\ DlOff /\ HlOff /\ MvOff /\ SgOff /\ DmOff /\ CvOff /\ IhOff

NextAveraging == ZvNext

SpecAveraging == InitAveraging /\ [][NextAveraging]_vars

InitHelper ==
    IhInit /\ AzOff /\ StOff /\ FdOff /\ DlOff /\ HlOff /\ MvOff /\ SgOff /\ DmOff /\ CvOff /\ ZvOff

NextHelper == IhNext

SpecHelper == InitHelper /\ [][NextHelper]_vars

----------------------------------------------------------------------------
(* C2: every buffer handed to the wait call is, at that moment, the oldest *)
(* buffer posted to the board and not yet waited on; the buffers consumed  *)
(* so far are, in order, the first buffers posted, so a buffer that is     *)
(* consumed again was posted again in between.                             *)
C2_WaitsOldestPosted ==
    /\ azWaitOk
    /\ IsPrefix(azConsumed, azPostLog)

\* a buffer of the ring has been waited on for the second time
C2_Witness ==
    /\ azFn = "get_traces"
    /\ Len(azConsumed) > azBufferCount
    /\ azConsumed[Len(azConsumed)] = azConsumed[1]

----------------------------------------------------------------------------
(* C3: a setter that finishes has either returned, and then the instrument *)
(* answered the read-back query with a value within the setter's tolerance *)
(* of the requested one, or raised InstrIOError.                           *)
C3_ReturnMeansAcknowledged ==
    stPc = "returned" =>
        /\ stAnswer # NoAnswer
        /\ ~StOutOfTol(stKind, stAnswer, stValue, stUnit)

----------------------------------------------------------------------------
(* C4: when set_supervision returns, either the stop flag was set at the   *)
(* test that follows the waiting loop, and then out_field was set to the   *)
(* value just read from out_field, auto_stop_heater is False,              *)
(* check_success was not called and False is returned; or the flag was     *)
(* clear, and then check_success(target, elapsed time) was called and True *)
(* is returned.                                                            *)
C4_SupervisionOutcome ==
    /\ fdPc = "sup_ret" =>
         /\ fdSup.flag \in {"set", "clear"}
         /\ fdSup.flag = "set" =>
              /\ fdStop
              /\ fdSup.haltRead \in FdFields
              /\ fdSup.haltSet = fdSup.haltRead
              /\ fdUlim = fdSup.haltRead
              /\ fdAutoStop = FALSE
              /\ fdSup.checked = <<>>
              /\ fdSup.ret = "False"
         /\ fdSup.flag = "clear" =>
              /\ fdSup.checked = <<fdSup.target, fdSup.time>>
              /\ fdSup.haltSet = -1
              /\ fdSup.ret = "True"
    /\ fdPc = "sup_check" =>
         /\ fdSup.flag = "clear"
         /\ fdSup.checked = <<fdSup.target, fdSup.time>>

\* a stop request ended a wait that had already slept, and the sweep was
\* halted at a non-zero field
C4_Witness ==
    /\ fdPc = "sup_ret"
    /\ fdSup.flag = "set"
    /\ fdSup.time > 0
    /\ fdSup.haltRead > 0
    /\ fdSup.ret = "False"

(* C5 as stated: stop_heater is never called in a perform in which a stop  *)
(* request was handled by set_supervision.                                 *)
C5_NeverInStoppedPerform ==
    fdHist.shCalls > 0 => ~fdHist.halted

(* C5, amended: in each perform stop_heater is called at most once, only   *)
(* when every field sweep started in that perform has been supervised to   *)
(* its end, only with auto_stop_heater true at that moment, and never      *)
(* after a stop request was handled by set_supervision in that perform.    *)
C5_StopHeaterAfterSweeps ==
    /\ fdHist.shCalls <= 1
    /\ fdHist.shCalls = 1 =>
         /\ fdHist.shAuto
         /\ fdHist.shOpen = 0
         /\ ~fdHist.shAfterHalt
    /\ fdPc = "auto_stop" => fdHist.open = 0

\* the heater was stopped after two supervised sweeps (heater on, field)
C5_Witness ==
    /\ fdHist.shCalls = 1
    /\ fdHist.sweeps = 2
    /\ fdSup.for = "stop_heater"
    /\ fdSup.ret = "True"

----------------------------------------------------------------------------
(* C1: at any time at most one thread is executing a call into the         *)
(* motor-controller library.                                               *)
C1_OneThreadInDll ==
    dlKind # "L1ControlUnit" => Cardinality(dlInDll) <= 1

(* C6: as long as no library has been closed, every construction of the    *)
(* singleton class has returned the same object: all controllers hold one  *)
(* library object (and with it one lock).                                  *)
C6_OneLibraryObject ==
    ~dlEverClosed =>
        \A t1 \in DlThreads, t2 \in DlThreads :
            (dlLib[t1] # 0 /\ dlLib[t2] # 0) => dlLib[t1] = dlLib[t2]

(* C8: no caller of secure() is still waiting for the library lock once    *)
(* more than `timeout` seconds have passed with the lock held by another   *)
(* thread: by then it has been given InstrIOError.                         *)
C8_WaitBoundedByTimeout ==
    \A t \in DlThreads :
        dlPc[t] = "acquire" => dlWaited[t] <= DlTimeout(dlKind)

(* C7: all Hall probe instruments use one lock, so two instruments are     *)
(* never inside the protected section of read_field or setup_dc at the     *)
(* same time.                                                              *)
C7_OneInstrumentInside ==
    Cardinality({i \in HlInstrs :
                    hlPc[i] = "inside" /\ hlOp[i] \in HlProtected}) <= 1

(* C9: whenever a move command of the running call has been sent, an       *)
(* observation of is_moving = False comes before the first move command    *)
(* in the history of that call.                                            *)
C9_MoveAfterIdleObserved ==
    \A k \in 1..Len(mvLog) :
        mvLog[k] = "move" => \E j \in 1..(k - 1) : mvLog[j] = "idle"

\* a call that found the motor moving, waited, and then sent its command
C9_Witness ==
    /\ mvWaited
    /\ \E k \in 1..Len(mvLog) : mvLog[k] = "move"

(* C10 as stated: over any sequence of opens and closes, each of the       *)
(* settings calls has been executed at most once, and exactly once when    *)
(* an instrument is open.                                                  *)
C10_AppliedExactlyOnce ==
    \A c \in 1..Len(SgCalls) :
        /\ \A k \in 1..sgDevCount : sgExec[k][c] <= 1
        /\ sgPc = "open" => sgExec[sgIdx][c] = 1

(* C10: the settings calls are executed only by an open that found the     *)
(* settings-done flag of the serial unset; the flag is set only after all  *)
(* of them returned without error in that open, and the complete           *)
(* error-free sequence has then been executed exactly once; while the flag *)
(* is unset no open has completed the sequence.                            *)
C10_AppliedUntilDone ==
    /\ sgPc \in {"settings", "set_done"} => ~sgDone[sgIdx]
    /\ \A k \in 1..sgDevCount :
          IF sgDone[k]
          THEN /\ sgOkAtSet[k] = Len(SgCalls)
               /\ sgCompleted[k] = 1
               /\ \A c \in 1..Len(SgCalls) : sgExec[k][c] >= 1
          ELSE sgCompleted[k] = 0

\* a first open failed in a settings call, a second one applied everything
\* and set the flag, a third one found the flag set and applied nothing
C10_Witness ==
    /\ sgPc = "open"
    /\ sgSkipped
    /\ sgDone[sgIdx]
    /\ sgExec[sgIdx][1] = 2
    /\ sgExec[sgIdx][Len(SgCalls)] = 1

(* C11: database_entries contains Chn_I and Chn_Q exactly when chn_enabled *)
(* is true, and Chn_trace exactly when chn_enabled and chn_trace are both  *)
(* true, for n = 1, 2, after any sequence of assignments to the flags.     *)
C11_EntriesFollowFlags ==
    dmTask \in DmTasks =>
        \A n \in DmChannels :
            /\ (DmKeyI(n) \in dmEntries) <=> dmEnabled[n]
            /\ (DmKeyQ(n) \in dmEntries) <=> dmEnabled[n]
            /\ (DmKeyTrace(n) \in dmEntries) <=> (dmEnabled[n] /\ dmTrace[n])

\* after a full sequence of assignments channel 1 is enabled with its
\* trace entry, channel 2 is disabled with its trace flag set and no entry
C11_Witness ==
    /\ dmAssigns = MaxAssigns
    /\ dmEnabled[1] /\ dmTrace[1] /\ "Ch1_trace" \in dmEntries
    /\ ~dmEnabled[2] /\ dmTrace[2] /\ "Ch2_trace" \notin dmEntries

RECURSIVE C12_SameButAccess(_, _)
C12_SameButAccess(a, b) ==
    /\ (DOMAIN a.vals) \ {"access_exs"} = (DOMAIN b.vals) \ {"access_exs"}
    /\ \A k \in (DOMAIN a.vals) \ {"access_exs"} : a.vals[k] = b.vals[k]
    /\ Len(a.subs) = Len(b.subs)
    /\ \A j \in 1..Len(a.subs) :
          /\ a.subs[j].name = b.subs[j].name
          /\ C12_SameButAccess(a.subs[j].sec, b.subs[j].sec)

\* the section came with a non-empty list under 'access_exs'
C12_HadExceptions ==
    /\ CvHas(cvBefore.vals, "access_exs")
    /\ cvBefore.vals["access_exs"].form = "list"
    /\ cvBefore.vals["access_exs"].items # <<>>

C13_RaisesOnlyIfNotComplete ==
    zvPc = "raised" => \E k \in 1..Len(zvAnswers) : zvAnswers[k] # 1

(* C14: the reads of a list attribute give, in order, the answers given at *)
(* construction and then the values assigned, each exactly once: the k-th  *)
(* read gives the k-th queued answer, raised when it is an Exception and   *)
(* returned otherwise, and the stored list holds exactly the answers not   *)
(* read yet; so an assigned value comes only after all answers queued      *)
(* before it.                                                              *)
C14_ReadsInQueueOrder ==
    ihLast # "off" =>
        /\ Len(ihReads) <= Len(ihQueued)
        /\ \A k \in 1..Len(ihReads) :
              /\ ihReads[k].value = ihQueued[k]
              /\ ihReads[k].kind = IF ihQueued[k].exc THEN "raised"
                                                      ELSE "returned"
        /\ IhReverse(ihStored) =
              SubSeq(ihQueued, Len(ihReads) + 1, Len(ihQueued))

\* the given answers were read, one of them an Exception that was raised,
\* and a value assigned before the first read has been returned last
C14_Witness ==
    /\ ihGiven = MaxAnswers
    /\ Len(ihQueued) > ihGiven
    /\ Len(ihReads) = Len(ihQueued)
    /\ ihStored = <<>>
    /\ ihReads[1].kind = "raised"
    /\ ihLast = "returned"

(* C15: when get_traces finishes (recordsPerCapture being a multiple of    *)
(* recordsPerBuffer), it has waited for exactly recordsPerCapture /        *)
(* recordsPerBuffer buffer completions, and every row of dataA and dataB   *)
(* was written exactly once, row r by completion r div recordsPerBuffer.   *)
C15_EveryRowOnce ==
    (azPc = "done" /\ azFn = "get_traces" /\ azRPC % azRPB = 0) =>
        /\ azCompleted * azRPB = azRPC
        /\ Len(azConsumed) = azCompleted
        /\ DOMAIN azRows = 0..(azRPC - 1)
        /\ \A r \in DOMAIN azRows : azRows[r] = <<r \div azRPB>>
        /\ \A k \in 0..(azCompleted - 1) :
              {r \in DOMAIN azRows :
                  \E i \in 1..Len(azRows[r]) : azRows[r][i] = k} =
                  (k * azRPB)..((k + 1) * azRPB - 1)

\* get_traces has finished a capture of several buffers of several rows
C15_Witness ==
    /\ azPc = "done"
    /\ azFn = "get_traces"
    /\ azRPB > 1
    /\ azCompleted > 1

====
